---- MODULE Spec2Model ----
(***************************************************************************)
(* A model of the audido playback core: the playback queue                 *)
(* (audido-core/src/queue.rs) and the audio engine's command loop          *)
(* (audido-core/src/engine.rs), with the sink of the output library and    *)
(* the audio thread that consumes the buffered source.                     *)
(*                                                                         *)
(* Indices are 0-based as in the source; a Rust Vec v is a sequence and    *)
(* v[i] is written At(v, i).  Option<T> is a sequence of length at most    *)
(* one: None is <<>> and Some(x) is <<x>>.                                 *)
(***************************************************************************)
EXTENDS Integers, Sequences, FiniteSets, TLC

VARIABLES
    queue,          \* AudioEngine.queue : PlaybackQueue
    sink,           \* AudioEngine.sink : the sources queued, paused, volume
    current_audio,  \* AudioEngine.current_audio : Option<AudioPlaybackData>
    position,       \* the PositionTracker index shared by payload and source
    is_playing,     \* AudioEngine.is_playing
    target_volume,  \* AudioEngine.target_volume, in 1/1000
    pc,             \* where AudioEngine::run is: "recv", "tick" or "done"
    resp,           \* the responses sent by the last step of the engine
    shutdowns,      \* how many Shutdown responses were ever sent
    cmd_q,          \* the command channel (UI -> engine)
    connected,      \* the UI still holds the command sender
    visited,        \* the indices a walk of next_index() has moved to
    eq_shadow,      \* AudioEngine.eq_shadow : Equalizer
    eq_enabled,     \* AudioEngine.eq_enabled
    rt_cmd_tx,      \* AudioEngine.rt_cmd_tx : Option<Sender<..>>
    dsp,            \* a DspNode<Equalizer> driven on its own
    src,            \* a BufferedSource driven on its own
    in_next,        \* where its next() is: the sample taken, or its end
    emitted,        \* the samples that source has yielded so far
    reported,       \* the last Position response of the current track
    ui_is_playing   \* AppState.is_playing of the terminal UI

vars == <<queue, sink, current_audio, position, is_playing, target_volume,
          pc, resp, shutdowns, cmd_q, connected, visited, eq_shadow,
          eq_enabled, rt_cmd_tx, dsp, src, in_next, emitted, reported,
          ui_is_playing>>

\* the equalizer fields of the engine
eqVars == <<eq_shadow, eq_enabled, rt_cmd_tx>>

engineVars == <<queue, sink, current_audio, position, is_playing,
                target_volume, pc, resp, shutdowns, eqVars>>

\* the equalizer and the source that are driven on their own
auxVars == <<dsp, src, in_next, emitted, reported, ui_is_playing>>

----------------------------------------------------------------------------
(* Bounds of the model *)

\* the engine's queue holds at most this many items
MaxItems == 2
\* the engine hands out ids below this
MaxId == 2
\* the queue of the queue-only specification holds at most this many items
MaxQItems == 3
\* the queue-only specification hands out ids below this
MaxQId == 4
\* the longest queue of the walk specification
WalkItems == 5
\* interleaved samples of every decodable track
TrackLen == 1
\* commands the UI may have in flight in the channel specification
MaxCmdQ == 2
\* the bands of the flat presets (8 in eq.rs), scaled down
MAX_EQ_FILTERS == 2
\* samples, coefficients and filter memory are residues modulo this
SampleMod == 3
\* realtime commands a source may have pending
MaxRt == 2
\* orders the random generator chooses among when the engine reshuffles
MaxDraws == 2
\* frames an equalizer driven on its own processes
MaxFrames == 1
\* the bits of a usize (64 on the targets of the player), scaled down
UsizeBits == 4
\* frames of the track of a source driven on its own
SrcFrames == 2
\* the samples a source takes per refill (512 in source.rs), scaled down
CHUNK_SIZE == 2
\* seeks and resets of the engine while a source driven on its own lives
MaxSeeks == 1

----------------------------------------------------------------------------
(* Option and Vec helpers *)

None == <<>>
Some(x) == <<x>>
IsSome(o) == o # <<>>
Unwrap(o) == o[1]

At(v, i) == v[i + 1]

Range(v) == {v[k] : k \in 1..Len(v)}

\* iter().position(|x| x == y): the first 0-based index of y in v
IndexOf(v, y) ==
    IF \E k \in 1..Len(v) : v[k] = y
    THEN Some((CHOOSE k \in 1..Len(v) :
                  v[k] = y /\ \A j \in 1..(k - 1) : v[j] # y) - 1)
    ELSE None

\* Vec::remove(pos)
RemoveAt(v, pos) ==
    [k \in 1..(Len(v) - 1) |-> IF k <= pos THEN v[k] ELSE v[k + 1]]

\* all orders of 0..n-1
RECURSIVE PermsOf(_)
PermsOf(S) ==
    IF S = {} THEN {<<>>}
    ELSE UNION {{<<x>> \o p : p \in PermsOf(S \ {x})} : x \in S}

Orders(n) == PermsOf(0..(n - 1))

----------------------------------------------------------------------------
(* Files.  A path either decodes to a payload or fails to open/decode. *)

GoodPaths == {"a"}
BadPaths == {"x"}
Paths == GoodPaths \cup BadPaths

\* a decodable stereo file; the files of GoodPaths are mono
StereoPath == "s"

\* AudioPlaybackData::load_local_audio succeeds
Decodable(path) == path \in GoodPaths \cup {StereoPath}

\* the AudioMetadata of a decoded file
Metadata(path) ==
    [path |-> path, sample_rate |-> 44100,
     num_channels |-> IF path = StereoPath THEN 2 ELSE 1]

\* the payload load_local_audio returns: metadata and the sample count,
\* TrackLen frames
load_local_audio(path) ==
    [metadata |-> Metadata(path),
     total_samples |-> TrackLen * Metadata(path).num_channels]

----------------------------------------------------------------------------
(* PlaybackQueue (queue.rs) *)

LoopModes == {"Off", "RepeatOne", "LoopAll", "Shuffle"}

QueueNew ==
    [items |-> <<>>, current_index |-> None, loop_mode |-> "Off",
     shuffle_order |-> <<>>, next_id |-> 0]

\* reshuffle: a random order of 0..len-1; rnd is the random draw, an order
\* of at least len indices, of which the ones below len are kept in order
reshuffle(q, rnd) ==
    [q EXCEPT !.shuffle_order =
        SelectSeq(rnd, LAMBDA x : x < Len(q.items))]

\* the ids add(paths) returns
add_ids(q, paths) == [k \in 1..Len(paths) |-> q.next_id + k - 1]

\* a mutant of add: the shuffle order is not regenerated
add_stale(q, paths, rnd) ==
    [q EXCEPT
        !.items = q.items \o
            [k \in 1..Len(paths) |->
                [id |-> q.next_id + k - 1, path |-> paths[k],
                 metadata |-> None]],
        !.next_id = q.next_id + Len(paths)]

add(q, paths, rnd) ==
    LET pushed ==
            [q EXCEPT
                !.items = q.items \o
                    [k \in 1..Len(paths) |->
                        [id |-> q.next_id + k - 1, path |-> paths[k],
                         metadata |-> None]],
                !.next_id = q.next_id + Len(paths)]
    IN  IF q.loop_mode = "Shuffle" THEN reshuffle(pushed, rnd) ELSE pushed

\* the bool remove(id) returns
remove_found(q, id) == \E k \in 1..Len(q.items) : q.items[k].id = id

\* a mutant of adjust_current_index: no clamp when the current item was
\* the last of the queue
adjust_current_index_noclamp(current_index, pos, len) ==
    IF IsSome(current_index)
    THEN LET idx == Unwrap(current_index)
         IN  IF pos < idx THEN Some(idx - 1)
             ELSE IF pos = idx /\ len = 0 THEN None
             ELSE current_index
    ELSE current_index

\* a mutant of adjust_current_index: no decrement for a removal before the
\* current item
adjust_current_index_nodec(current_index, pos, len) ==
    IF IsSome(current_index)
    THEN LET idx == Unwrap(current_index)
         IN  IF pos <= idx
             THEN IF len = 0 THEN None
                  ELSE IF idx >= len THEN Some(len - 1)
                  ELSE current_index
             ELSE current_index
    ELSE current_index

\* remove: the current_index after items.remove(pos) left len items
adjust_current_index(current_index, pos, len) ==
    IF IsSome(current_index)
    THEN LET idx == Unwrap(current_index)
         IN  IF pos < idx THEN Some(idx - 1)
             ELSE IF pos = idx
             THEN IF len = 0 THEN None
                  ELSE IF idx >= len THEN Some(len - 1)
                  ELSE current_index
             ELSE current_index
    ELSE current_index

\* a mutant of remove: current_index is left as it was
remove_index_kept(q, id, rnd) ==
    LET found == IndexOf([k \in 1..Len(q.items) |-> q.items[k].id], id)
    IN  IF IsSome(found)
        THEN LET removed ==
                    [q EXCEPT !.items = RemoveAt(q.items, Unwrap(found))]
             IN  IF q.loop_mode = "Shuffle" THEN reshuffle(removed, rnd)
                 ELSE removed
        ELSE q

remove(q, id, rnd) ==
    LET found == IndexOf([k \in 1..Len(q.items) |-> q.items[k].id], id)
    IN  IF IsSome(found)
        THEN LET pos == Unwrap(found)
                 items2 == RemoveAt(q.items, pos)
                 removed ==
                    [q EXCEPT
                       !.items = items2,
                       !.current_index =
                          adjust_current_index(@, pos, Len(items2))]
             IN  IF q.loop_mode = "Shuffle" THEN reshuffle(removed, rnd)
                 ELSE removed
        ELSE q

\* a mutant of clear: the id counter starts again at 0
clear_restart_ids(q) ==
    [q EXCEPT !.items = <<>>, !.current_index = None,
              !.shuffle_order = <<>>, !.next_id = 0]

clear(q) ==
    [q EXCEPT !.items = <<>>, !.current_index = None,
              !.shuffle_order = <<>>]

\* a mutant of next_shuffled: no wrap at the end of shuffle_order
next_shuffled_nowrap(q, current) ==
    LET sp == IndexOf(q.shuffle_order, current)
    IN  IF IsSome(sp)
        THEN Some(At(q.shuffle_order,
                     IF Unwrap(sp) + 1 < Len(q.shuffle_order)
                     THEN Unwrap(sp) + 1 ELSE Unwrap(sp)))
        ELSE IF q.shuffle_order = <<>> THEN None
        ELSE Some(At(q.shuffle_order, 0))

\* next_index in Shuffle mode: one step forward in shuffle_order
next_shuffled(q, current) ==
    LET sp == IndexOf(q.shuffle_order, current)
    IN  IF IsSome(sp)
        THEN Some(At(q.shuffle_order,
                     (Unwrap(sp) + 1) % Len(q.shuffle_order)))
        ELSE IF q.shuffle_order = <<>> THEN None
        ELSE Some(At(q.shuffle_order, 0))

\* prev_index in Shuffle mode: one step backward in shuffle_order
prev_shuffled(q, current) ==
    LET sp == IndexOf(q.shuffle_order, current)
    IN  IF IsSome(sp)
        THEN Some(At(q.shuffle_order,
                     IF Unwrap(sp) > 0 THEN Unwrap(sp) - 1
                     ELSE Len(q.shuffle_order) - 1))
        ELSE IF q.shuffle_order = <<>> THEN None
        ELSE Some(At(q.shuffle_order, Len(q.shuffle_order) - 1))

\* a mutant of next_index: Off steps past the last item
next_index_past_end(q) ==
    IF q.current_index = None THEN None
    ELSE IF q.items = <<>> THEN None
    ELSE LET current == Unwrap(q.current_index)
             len == Len(q.items)
         IN  CASE q.loop_mode = "Off" ->
                    IF current + 1 <= len THEN Some(current + 1) ELSE None
               [] q.loop_mode = "RepeatOne" -> Some(current)
               [] q.loop_mode = "LoopAll" -> Some((current + 1) % len)
               [] q.loop_mode = "Shuffle" -> next_shuffled(q, current)

\* a mutant of prev_index: LoopAll does not wrap from the first item
prev_index_nowrap(q) ==
    IF q.current_index = None THEN None
    ELSE IF q.items = <<>> THEN None
    ELSE LET current == Unwrap(q.current_index)
         IN  CASE q.loop_mode = "Off" ->
                    IF current > 0 THEN Some(current - 1) ELSE None
               [] q.loop_mode = "RepeatOne" -> Some(current)
               [] q.loop_mode = "LoopAll" ->
                    IF current > 0 THEN Some(current - 1) ELSE Some(0)
               [] q.loop_mode = "Shuffle" -> prev_shuffled(q, current)

next_index(q) ==
    IF q.current_index = None THEN None
    ELSE IF q.items = <<>> THEN None
    ELSE LET current == Unwrap(q.current_index)
             len == Len(q.items)
         IN  CASE q.loop_mode = "Off" ->
                    IF current + 1 < len THEN Some(current + 1) ELSE None
               [] q.loop_mode = "RepeatOne" -> Some(current)
               [] q.loop_mode = "LoopAll" -> Some((current + 1) % len)
               [] q.loop_mode = "Shuffle" -> next_shuffled(q, current)

prev_index(q) ==
    IF q.current_index = None THEN None
    ELSE IF q.items = <<>> THEN None
    ELSE LET current == Unwrap(q.current_index)
             len == Len(q.items)
         IN  CASE q.loop_mode = "Off" ->
                    IF current > 0 THEN Some(current - 1) ELSE None
               [] q.loop_mode = "RepeatOne" -> Some(current)
               [] q.loop_mode = "LoopAll" ->
                    IF current > 0 THEN Some(current - 1) ELSE Some(len - 1)
               [] q.loop_mode = "Shuffle" -> prev_shuffled(q, current)

\* get(index)
get(q, index) ==
    IF index < Len(q.items) THEN Some(At(q.items, index)) ELSE None

\* current()
current(q) ==
    IF IsSome(q.current_index) THEN get(q, Unwrap(q.current_index))
    ELSE None

set_metadata(q, id, metadata) ==
    [q EXCEPT !.items =
        [k \in 1..Len(q.items) |->
            IF q.items[k].id = id
               /\ \A j \in 1..(k - 1) : q.items[j].id # id
            THEN [q.items[k] EXCEPT !.metadata = Some(metadata)]
            ELSE q.items[k]]]

----------------------------------------------------------------------------
(* The sink of the output library, as the engine uses it.  Volume and      *)
(* speed are in 1/1000.                                                     *)

SinkNew == [sources |-> <<>>, paused |-> FALSE, volume |-> 1000,
            speed |-> 1000]

sink_empty(s) == s.sources = <<>>
sink_stop(s) == [s EXCEPT !.sources = <<>>]
sink_append(s, source) == [s EXCEPT !.sources = Append(@, source)]
sink_play(s) == [s EXCEPT !.paused = FALSE]
sink_pause(s) == [s EXCEPT !.paused = TRUE]
sink_set_volume(s, v) == [s EXCEPT !.volume = v]
sink_set_speed(s, v) == [s EXCEPT !.speed = v]

Clamp(x, lo, hi) == IF x < lo THEN lo ELSE IF x > hi THEN hi ELSE x

----------------------------------------------------------------------------
(* PositionTracker (source.rs).  Times are in frames (seconds times the    *)
(* sample rate), so position_seconds and seek_to_seconds are exact.        *)

\* position_seconds, in frames
position_seconds(pos, payload) == pos \div payload.metadata.num_channels

\* duration_seconds, in frames
duration_seconds(payload) ==
    payload.total_samples \div payload.metadata.num_channels

\* 2^n
RECURSIVE Pow2(_)
Pow2(n) == IF n = 0 THEN 1 ELSE 2 * Pow2(n - 1)

\* usize::MAX
UsizeMax == Pow2(UsizeBits) - 1

\* (seconds * sample_rate) as usize: the cast of a float saturates, a
\* negative time gives 0 frames
seek_frames(t) == IF t < 0 THEN 0 ELSE IF t > UsizeMax THEN UsizeMax ELSE t

\* frames * channels does not fit a usize: the multiplication panics in a
\* build with overflow checks and wraps in a build without them
seek_overflows(t, payload) ==
    seek_frames(t) * payload.metadata.num_channels > UsizeMax

\* the index seek_to_seconds stores, the multiplication wrapping
seek_to_seconds(t, payload) ==
    LET frames == seek_frames(t)
        sample_pos == (frames * payload.metadata.num_channels)
                         % Pow2(UsizeBits)
    IN  IF sample_pos < payload.total_samples THEN sample_pos
        ELSE payload.total_samples


----------------------------------------------------------------------------
(* The parametric equalizer (dsp/eq.rs, dsp/dsp_graph.rs).  Frequencies    *)
(* are in Hz, gains in dB, Q factors and linear gains in 1/1000.  Samples, *)
(* coefficients and filter memory are residues modulo SampleMod: the       *)
(* difference equations are the ones of the code, over a finite ring.      *)

FilterTypes == {"Peaking", "LowPass", "HighPass", "LowShelf", "HighShelf",
                "BandPass", "Notch"}

\* FilterNode::new
FilterNodeNew(id, freq) ==
    [id |-> id, filter_type |-> "Peaking", freq |-> freq, gain |-> 0,
     q |-> 707, order |-> 2]

\* FilterNode::default
FilterNodeDefault == FilterNodeNew(0, 1000)

\* the setters of FilterNode
set_filter_type(node, filter_type) == [node EXCEPT !.filter_type = filter_type]
set_freq(node, freq) == [node EXCEPT !.freq = Clamp(freq, 20, 20000)]
set_gain(node, gain) == [node EXCEPT !.gain = Clamp(gain, -20, 20)]
set_order(node, order) == [node EXCEPT !.order = Clamp(order, 1, 16)]
set_q_factor(node, q) == [node EXCEPT !.q = Clamp(q, 100, 10000)]

\* FilterNode::reset
node_reset(node) == [FilterNodeDefault EXCEPT !.id = node.id]

\* Biquad::calculate_coefficients, normalized as Biquad::update does: the
\* coefficients are a function of the filter type, frequency, gain, Q and
\* sample rate, kept as residues
calculate_coefficients(filter, sample_rate) ==
    LET w0 == (filter.freq + sample_rate) % SampleMod
        alpha == (w0 + filter.q) % SampleMod
        a == (filter.gain + 20) % SampleMod
        shelf == filter.filter_type \in {"LowShelf", "HighShelf"}
        peak == filter.filter_type = "Peaking"
    IN  [b0 |-> IF peak \/ shelf THEN (1 + alpha * a) % SampleMod
                ELSE (1 + w0) % SampleMod,
         b1 |-> IF filter.filter_type = "BandPass" THEN 0 ELSE w0,
         b2 |-> IF peak \/ shelf THEN (1 + alpha + a) % SampleMod
                ELSE alpha,
         a1 |-> w0,
         a2 |-> (1 + alpha) % SampleMod]

\* Biquad::default
BiquadDefault == [b0 |-> 0, b1 |-> 0, b2 |-> 0, a1 |-> 0, a2 |-> 0,
                  z1 |-> 0, z2 |-> 0]

\* Biquad::update: recalculates the coefficients
biquad_update(bq, filter, sample_rate) ==
    LET c == calculate_coefficients(filter, sample_rate)
    IN  [b0 |-> c.b0, b1 |-> c.b1, b2 |-> c.b2, a1 |-> c.a1, a2 |-> c.a2,
         z1 |-> bq.z1, z2 |-> bq.z2]

\* Biquad::process: the output sample and the section afterwards
biquad_process(bq, sample) ==
    LET out == (bq.b0 * sample + bq.z1) % SampleMod
    IN  [out |-> out,
         bq |-> [bq EXCEPT
                   !.z1 = (bq.b1 * sample - bq.a1 * out + bq.z2) % SampleMod,
                   !.z2 = (bq.b2 * sample - bq.a2 * out) % SampleMod]]

EqPresets == {"Flat", "Acoustic", "Dance", "Electronic", "BassBoosted",
              "Custom"}

FlatFreqs == <<40, 200, 500, 1000, 2000, 5000, 10000, 15000>>

create_flat_filters ==
    [i \in 1..MAX_EQ_FILTERS |->
        FilterNodeNew(i - 1, IF i <= Len(FlatFreqs) THEN FlatFreqs[i]
                             ELSE 1000)]

\* EqPreset::set_filters
set_filters(preset) ==
    IF preset = "BassBoosted"
    THEN <<[id |-> 1, filter_type |-> "LowShelf", freq |-> 100, gain |-> 6,
            q |-> 707, order |-> 2]>>
    ELSE create_flat_filters

\* the number of biquads of a band: ceil(order / 2), at least 1
section_count(order) ==
    LET num_biquads == (order + 1) \div 2
    IN  IF num_biquads = 0 THEN 1 ELSE num_biquads

\* Equalizer::rebuild_processors
rebuild_processors(eq) ==
    [eq EXCEPT !.processors =
        [ch \in 1..eq.num_channels |->
            [i \in 1..Len(eq.filters) |->
                [k \in 1..section_count(eq.filters[i].order) |->
                    biquad_update(BiquadDefault, eq.filters[i],
                                  eq.sample_rate)]]]]

\* Equalizer::new
EqualizerNew(sample_rate, num_channels) ==
    rebuild_processors(
        [sample_rate |-> sample_rate, preset |-> "Flat",
         filters |-> set_filters("Flat"), processors |-> <<>>,
         master_gain |-> 1000, num_channels |-> num_channels])

\* a mutant of resize_chain: the memory of the kept sections is cleared
resize_chain_cleared(chain, count) ==
    [k \in 1..count |-> BiquadDefault]

\* the chain of a band resized to count sections: new zero-state sections
\* are appended, or the chain is truncated
resize_chain(chain, count) ==
    [k \in 1..count |-> IF k <= Len(chain) THEN chain[k] ELSE BiquadDefault]

\* a mutant of parameters_changed: the coefficients are updated and the
\* chains keep the length they had
parameters_changed_keep_length(eq) ==
    IF Len(eq.processors) # eq.num_channels
    THEN rebuild_processors(eq)
    ELSE IF \E ch \in 1..Len(eq.processors) :
               Len(eq.processors[ch]) # Len(eq.filters)
    THEN rebuild_processors(eq)
    ELSE [eq EXCEPT !.processors =
            [ch \in 1..Len(eq.processors) |->
                [i \in 1..Len(eq.filters) |->
                    [k \in 1..Len(eq.processors[ch][i]) |->
                        biquad_update(eq.processors[ch][i][k],
                                      eq.filters[i], eq.sample_rate)]]]]

\* Equalizer::parameters_changed
parameters_changed(eq) ==
    IF Len(eq.processors) # eq.num_channels
    THEN rebuild_processors(eq)
    ELSE IF \E ch \in 1..Len(eq.processors) :
               Len(eq.processors[ch]) # Len(eq.filters)
    THEN rebuild_processors(eq)
    ELSE [eq EXCEPT !.processors =
            [ch \in 1..Len(eq.processors) |->
                [i \in 1..Len(eq.filters) |->
                    LET chain == resize_chain(
                                    eq.processors[ch][i],
                                    section_count(eq.filters[i].order))
                    IN  [k \in 1..Len(chain) |->
                            biquad_update(chain[k], eq.filters[i],
                                          eq.sample_rate)]]]]

\* Equalizer::update_preset
update_preset(eq, preset) ==
    IF preset # eq.preset
    THEN rebuild_processors(
            [eq EXCEPT !.preset = preset, !.filters = set_filters(preset)])
    ELSE eq

\* Equalizer::reset_parameters
reset_parameters(eq) ==
    parameters_changed(
        [eq EXCEPT !.filters = set_filters(eq.preset), !.master_gain = 1000])

\* a mutant of reset_filter_node_param: the built-in default keeps id 0
reset_filter_node_param_id0(eq, node_index) ==
    LET preset_filters == set_filters(eq.preset)
        default_node ==
            IF node_index < Len(preset_filters)
            THEN At(preset_filters, node_index)
            ELSE FilterNodeDefault
    IN  IF node_index < Len(eq.filters)
        THEN [ok |-> TRUE,
              eq |-> parameters_changed(
                        [eq EXCEPT !.filters[node_index + 1] = default_node])]
        ELSE [ok |-> FALSE, eq |-> eq]

\* Equalizer::reset_filter_node_param: the Result and the equalizer
reset_filter_node_param(eq, node_index) ==
    LET preset_filters == set_filters(eq.preset)
        default_node ==
            IF node_index < Len(preset_filters)
            THEN At(preset_filters, node_index)
            ELSE [FilterNodeDefault EXCEPT !.id = node_index]
    IN  IF node_index < Len(eq.filters)
        THEN [ok |-> TRUE,
              eq |-> parameters_changed(
                        [eq EXCEPT !.filters[node_index + 1] = default_node])]
        ELSE [ok |-> FALSE, eq |-> eq]

\* a sample through the biquads of a chain, from section k on
RECURSIVE process_chain(_, _, _)
process_chain(chain, k, s) ==
    IF k > Len(chain) THEN [out |-> s, chain |-> chain]
    ELSE LET r == biquad_process(chain[k], s)
         IN  process_chain([chain EXCEPT ![k] = r.bq], k + 1, r.out)

\* a sample through the bands of a channel, from band i on
RECURSIVE process_bands(_, _, _)
process_bands(bands, i, s) ==
    IF i > Len(bands) THEN [out |-> s, bands |-> bands]
    ELSE LET r == process_chain(bands[i], 1, s)
         IN  process_bands([bands EXCEPT ![i] = r.chain], i + 1, r.out)

\* the samples of a frame through the chains of their channels, from
\* sample i (0-based) on
RECURSIVE process_samples(_, _, _)
process_samples(eq, frame, i) ==
    IF i >= Len(frame) THEN [eq |-> eq, frame |-> frame]
    ELSE LET channel_idx == i % eq.num_channels
         IN  IF channel_idx < Len(eq.processors)
             THEN LET r == process_bands(eq.processors[channel_idx + 1], 1,
                                         frame[i + 1])
                  IN  process_samples(
                         [eq EXCEPT !.processors[channel_idx + 1] = r.bands],
                         [frame EXCEPT ![i + 1] = r.out], i + 1)
             ELSE process_samples(eq, frame, i + 1)

\* Equalizer::process_frame: the equalizer and the frame afterwards
process_frame(eq, frame) ==
    LET gained ==
            IF eq.master_gain # 1000
            THEN [i \in 1..Len(frame) |->
                    ((frame[i] * eq.master_gain) \div 1000) % SampleMod]
            ELSE frame
    IN  IF eq.num_channels = 0 THEN [eq |-> eq, frame |-> gained]
        ELSE process_samples(eq, gained, 0)

\* DspNode::new and new_with_state
DspNodeNew(instance) == [on |-> FALSE, instance |-> instance]
new_with_state(instance, on) == [on |-> on, instance |-> instance]

\* create_source and BufferedSource::new: the source of a payload, with
\* its equalizer node and the receiving end of its realtime channel;
\* tx_held tells whether the sending end of that channel is still held
create_source(payload, initial_eq, enabled) ==
    [metadata |-> payload.metadata, total_samples |-> payload.total_samples,
     equalizer |-> DspNodeNew(initial_eq), cmd_rx |-> <<>>, tx_held |-> TRUE,
     process_buffer |-> <<>>, process_buffer_idx |-> 0]

\* DspNode<Equalizer>::set_filter
set_filter(node, idx, filter) ==
    IF idx < Len(node.instance.filters)
    THEN [node EXCEPT !.instance =
            parameters_changed([@ EXCEPT !.filters[idx + 1] = filter])]
    ELSE node

\* DspNode<Equalizer>::set_all_filters
set_all_filters(node, nodes) ==
    [node EXCEPT !.instance = parameters_changed([@ EXCEPT !.filters = nodes])]

\* DspNode<Equalizer>::set_master_gain
set_master_gain(node, gain) == [node EXCEPT !.instance.master_gain = gain]

\* the messages of the realtime channel (RealtimeAudioCommand)
SetEqEnabled(enabled) == [type |-> "SetEqEnabled", enabled |-> enabled]
SetEqMasterGain(gain) == [type |-> "SetEqMasterGain", gain |-> gain]
SetEqPreset(preset) == [type |-> "SetEqPreset", preset |-> preset]
SetAllEqFilters(nodes) == [type |-> "SetAllEqFilters", filters |-> nodes]
UpdateEqFilter(idx, node) ==
    [type |-> "UpdateEqFilter", idx |-> idx, filter |-> node]
ResetEq == [type |-> "ResetEq"]
ResetEqFilterNode(index) == [type |-> "ResetEqFilterNode", index |-> index]

\* the source resets its equalizer to the defaults of its preset
apply_reset_eq(node) ==
    [node EXCEPT !.instance = reset_parameters(@)]

\* the source resets one band of its equalizer
apply_reset_filter_node(node, index) ==
    [node EXCEPT !.instance = reset_filter_node_param(@, index).eq]

\* one realtime command applied to the equalizer node of the source
apply_rt_command(node, cmd) ==
    CASE cmd.type = "UpdateEqFilter" -> set_filter(node, cmd.idx, cmd.filter)
      [] cmd.type = "SetAllEqFilters" -> set_all_filters(node, cmd.filters)
      [] cmd.type = "SetEqMasterGain" -> set_master_gain(node, cmd.gain)
      [] cmd.type = "SetEqPreset" ->
            [node EXCEPT !.instance = update_preset(@, cmd.preset)]
      [] cmd.type = "SetEqEnabled" -> [node EXCEPT !.on = cmd.enabled]
      [] cmd.type = "ResetEq" -> apply_reset_eq(node)
      [] cmd.type = "ResetEqFilterNode" ->
            apply_reset_filter_node(node, cmd.index)

\* a mutant of drain_commands: the oldest command is applied and the
\* others are dropped
drain_commands_first_only(node, cmds) ==
    IF cmds = <<>> THEN node ELSE apply_rt_command(node, Head(cmds))

\* fill_buffer, step 1: every pending realtime command is applied, oldest
\* first
RECURSIVE drain_commands(_, _)
drain_commands(node, cmds) ==
    IF cmds = <<>> THEN node
    ELSE drain_commands(apply_rt_command(node, Head(cmds)), Tail(cmds))

\* the source with its realtime channel drained
drain(source) ==
    [source EXCEPT !.equalizer = drain_commands(@, source.cmd_rx),
                   !.cmd_rx = <<>>]

\* the decoded samples of a track: interleaved, none of them zero
Samples(total_samples) ==
    [i \in 1..total_samples |-> ((i - 1) % (SampleMod - 1)) + 1]

\* a mutant of fill_buffer: the equalizer runs even when it is off
fill_buffer_eq_always(source, global_pos) ==
    LET s1 == [drain(source) EXCEPT !.process_buffer = <<>>,
                                    !.process_buffer_idx = 0]
        end_pos == IF global_pos + CHUNK_SIZE < s1.total_samples
                   THEN global_pos + CHUNK_SIZE ELSE s1.total_samples
        chunk == SubSeq(Samples(s1.total_samples), global_pos + 1, end_pos)
        r == process_frame(s1.equalizer.instance, chunk)
    IN  IF global_pos >= s1.total_samples
        THEN [ok |-> FALSE, source |-> s1]
        ELSE [ok |-> TRUE,
              source |-> [s1 EXCEPT !.equalizer.instance = r.eq,
                                    !.process_buffer = r.frame]]

\* BufferedSource::fill_buffer, global_pos being the position it loads:
\* what it returns and the source afterwards
fill_buffer(source, global_pos) ==
    LET s1 == [drain(source) EXCEPT !.process_buffer = <<>>,
                                    !.process_buffer_idx = 0]
        end_pos == IF global_pos + CHUNK_SIZE < s1.total_samples
                   THEN global_pos + CHUNK_SIZE ELSE s1.total_samples
        chunk == SubSeq(Samples(s1.total_samples), global_pos + 1, end_pos)
        r == process_frame(s1.equalizer.instance, chunk)
    IN  IF global_pos >= s1.total_samples
        THEN [ok |-> FALSE, source |-> s1]
        ELSE IF s1.equalizer.on
        THEN [ok |-> TRUE,
              source |-> [s1 EXCEPT !.equalizer.instance = r.eq,
                                    !.process_buffer = r.frame]]
        ELSE [ok |-> TRUE, source |-> [s1 EXCEPT !.process_buffer = chunk]]

\* BufferedSource::current_span_len: samples.len() - pos in usize; the
\* subtraction underflows when pos is beyond the samples
current_span_len(source, pos) ==
    (source.total_samples - pos) % Pow2(UsizeBits)

----------------------------------------------------------------------------
(* Responses (AudioResponse) *)

Playing == [type |-> "Playing"]
Paused == [type |-> "Paused"]
Stopped == [type |-> "Stopped"]
Shutdown == [type |-> "Shutdown"]
Loaded(metadata) == [type |-> "Loaded", metadata |-> metadata]
PositionResp(c, t) == [type |-> "Position", current |-> c, total |-> t]
TrackChanged(index, metadata) ==
    [type |-> "TrackChanged", index |-> index, metadata |-> metadata]
QueueUpdated(items) == [type |-> "QueueUpdated", items |-> items]
LoopModeChanged(mode) == [type |-> "LoopModeChanged", mode |-> mode]
Error(msg) == [type |-> "Error", msg |-> msg]

----------------------------------------------------------------------------
(* The engine (engine.rs).  The handlers are functions of the engine's     *)
(* state e: its fields, the responses sent so far in this step (out) and   *)
(* what process_command returns (ret).                                     *)

\* 0.001, the volume below which a fade is skipped
FadeEps == 1

Send(e, r) == [e EXCEPT !.out = Append(@, r)]

perform_fade_out(e) ==
    IF sink_empty(e.sink) \/ e.sink.paused THEN e
    ELSE IF e.sink.volume <= FadeEps THEN e
    ELSE [e EXCEPT !.sink = sink_set_volume(@, 0)]

perform_fade_in(e) ==
    IF e.target_volume <= FadeEps
    THEN [e EXCEPT !.sink = sink_set_volume(@, 0)]
    ELSE [e EXCEPT !.sink = sink_set_volume(@, e.target_volume)]

\* the sources of the sink once the sender the engine held is dropped
orphaned(sources) ==
    [i \in DOMAIN sources |-> [sources[i] EXCEPT !.tx_held = FALSE]]

\* a mutant of append_source: the sender of the new channel is not stored
append_source_sender_kept(e) ==
    [e EXCEPT
       !.sink = sink_append(@, [create_source(Unwrap(e.current_audio),
                                              e.eq_shadow, e.eq_enabled)
                                  EXCEPT !.tx_held = FALSE])]

\* a new realtime channel whose sender replaces the one the engine held;
\* a source of the current payload, seeded with a clone of the shadow
\* equalizer and given the receiver, is appended to the sink
append_source(e) ==
    [e EXCEPT
       !.rt_cmd_tx = Some("rt"),
       !.sink = sink_append([@ EXCEPT !.sources = orphaned(@)],
                            create_source(Unwrap(e.current_audio),
                                          e.eq_shadow, e.eq_enabled))]

\* the shadow equalizer recreated for the layout of a decoded file, with
\* the filters, master gain and preset it had
rebuild_shadow(e, metadata) ==
    [e EXCEPT !.eq_shadow =
        parameters_changed(
            [EqualizerNew(metadata.sample_rate, metadata.num_channels)
               EXCEPT !.filters = e.eq_shadow.filters,
                      !.master_gain = e.eq_shadow.master_gain,
                      !.preset = e.eq_shadow.preset])]

\* append a source of the current payload, start the sink and fade in
\* (the tail of Load and of play_queue_track)
start_source(e) ==
    LET e1 == [append_source(e) EXCEPT
                 !.sink = sink_play(sink_set_volume(@, 0)),
                 !.is_playing = TRUE]
    IN  perform_fade_in(Send(e1, Playing))

\* sink.stop(); is_playing = false, after a fade out if playing
stop_current(e) ==
    LET e1 == IF e.is_playing THEN perform_fade_out(e) ELSE e
    IN  [e1 EXCEPT !.sink = sink_stop(@), !.is_playing = FALSE]

\* a mutant of play_queue_track: Loaded is sent before TrackChanged
play_queue_track_loaded_first(e, index) ==
    IF IsSome(get(e.queue, index))
    THEN LET item == Unwrap(get(e.queue, index))
             e1 == stop_current(e)
         IN  IF Decodable(item.path)
             THEN LET audio_data == load_local_audio(item.path)
                      metadata == audio_data.metadata
                      e2 == [rebuild_shadow(e1, metadata) EXCEPT
                               !.queue =
                                  [set_metadata(@, item.id, metadata)
                                     EXCEPT !.current_index = Some(index)],
                               !.current_audio = Some(audio_data),
                               !.position = 0]
                      e3 == Send(Send(e2, Loaded(metadata)),
                                 TrackChanged(index, metadata))
                  IN  start_source(e3)
             ELSE Send(e1, Error("Failed to load track"))
    ELSE e

play_queue_track(e, index) ==
    IF IsSome(get(e.queue, index))
    THEN LET item == Unwrap(get(e.queue, index))
             e1 == stop_current(e)
         IN  IF Decodable(item.path)
             THEN LET audio_data == load_local_audio(item.path)
                      metadata == audio_data.metadata
                      e2 == [rebuild_shadow(e1, metadata) EXCEPT
                               !.queue =
                                  [set_metadata(@, item.id, metadata)
                                     EXCEPT !.current_index = Some(index)],
                               !.current_audio = Some(audio_data),
                               !.position = 0]
                      e3 == Send(Send(e2, TrackChanged(index, metadata)),
                                 Loaded(metadata))
                  IN  start_source(e3)
             ELSE Send(e1, Error("Failed to load track"))
    ELSE e

send_queue_update(e) == Send(e, QueueUpdated(e.queue.items))

CmdLoad(e, path) ==
    LET e1 == stop_current(e)
    IN  IF Decodable(path)
        THEN LET audio_data == load_local_audio(path)
                 e2 == [rebuild_shadow(e1, audio_data.metadata) EXCEPT
                          !.current_audio = Some(audio_data),
                          !.position = 0]
             IN  start_source(Send(e2, Loaded(audio_data.metadata)))
        ELSE Send(e1, Error("Failed to load audio"))

\* a mutant of Play: a source is appended whether the sink is empty or not
CmdPlay_always_append(e) ==
    IF IsSome(e.current_audio)
    THEN LET e1 == append_source(e)
         IN  IF ~e1.is_playing
             THEN perform_fade_in(Send(
                    [e1 EXCEPT
                       !.sink = sink_play(sink_set_volume(@, 0)),
                       !.is_playing = TRUE], Playing))
             ELSE e1
    ELSE Send(e, Error("No audio loaded"))

CmdPlay(e) ==
    IF IsSome(e.current_audio)
    THEN LET e1 == IF sink_empty(e.sink) THEN append_source(e) ELSE e
         IN  IF ~e1.is_playing
             THEN perform_fade_in(Send(
                    [e1 EXCEPT
                       !.sink = sink_play(sink_set_volume(@, 0)),
                       !.is_playing = TRUE], Playing))
             ELSE e1
    ELSE Send(e, Error("No audio loaded"))

CmdPause(e) ==
    IF e.is_playing
    THEN Send([perform_fade_out(e) EXCEPT !.sink = sink_pause(@),
                                          !.is_playing = FALSE], Paused)
    ELSE e

\* a mutant of Stop: the sink volume is left where the fade out put it
CmdStop_no_restore(e) ==
    LET e1 == stop_current(e)
        e2 == IF IsSome(e1.current_audio)
              THEN [e1 EXCEPT !.position = 0] ELSE e1
    IN  Send(e2, Stopped)

CmdStop(e) ==
    LET e1 == stop_current(e)
        e2 == IF IsSome(e1.current_audio)
              THEN [e1 EXCEPT !.position = 0] ELSE e1
    IN  Send([e2 EXCEPT !.sink = sink_set_volume(@, e2.target_volume)],
             Stopped)

CmdSetVolume(e, volume) ==
    LET clamped == Clamp(volume, 0, 1000)
        e1 == [e EXCEPT !.target_volume = clamped]
    IN  IF e1.is_playing
        THEN [e1 EXCEPT !.sink = sink_set_volume(@, clamped)]
        ELSE e1

CmdSetSpeed(e, speed) ==
    [e EXCEPT !.sink = sink_set_speed(@, Clamp(speed, 100, 4000))]

\* a mutant of Seek: the sink is not stopped before the new source is
\* appended
CmdSeek_no_stop(e, pos) ==
    IF IsSome(e.current_audio)
    THEN LET audio_data == Unwrap(e.current_audio)
             should_play == e.is_playing
             e1 == append_source(
                      [e EXCEPT
                         !.position = seek_to_seconds(pos, audio_data)])
         IN  IF should_play
             THEN [e1 EXCEPT !.sink =
                      sink_play(sink_set_volume(@, e1.target_volume))]
             ELSE [e1 EXCEPT !.sink = sink_pause(@)]
    ELSE e

CmdSeek(e, pos) ==
    IF IsSome(e.current_audio)
    THEN LET audio_data == Unwrap(e.current_audio)
             should_play == e.is_playing
             e1 == append_source(
                      [e EXCEPT
                         !.position = seek_to_seconds(pos, audio_data),
                         !.sink = sink_stop(@)])
         IN  IF should_play
             THEN [e1 EXCEPT !.sink =
                      sink_play(sink_set_volume(@, e1.target_volume))]
             ELSE [e1 EXCEPT !.sink = sink_pause(@)]
    ELSE e

CmdNext(e) ==
    IF IsSome(next_index(e.queue))
    THEN play_queue_track(e, Unwrap(next_index(e.queue)))
    ELSE e

CmdPrevious(e) ==
    IF IsSome(prev_index(e.queue))
    THEN play_queue_track(e, Unwrap(prev_index(e.queue)))
    ELSE e

\* a mutant of Quit: process_command returns true, the loop goes on
CmdQuit_continue(e) ==
    LET e1 == IF e.is_playing THEN perform_fade_out(e) ELSE e
    IN  [e1 EXCEPT !.sink = sink_stop(@)]

CmdQuit(e) ==
    LET e1 == IF e.is_playing THEN perform_fade_out(e) ELSE e
    IN  [e1 EXCEPT !.sink = sink_stop(@), !.ret = FALSE]

\* a mutant of AddToQueue: the auto-start is always at index 0
CmdAddToQueue_from_start(e, paths, rnd) ==
    LET e1 == [e EXCEPT !.queue = add(@, paths, rnd)]
        e2 == IF ~e1.is_playing /\ ~e1.sink.paused
              THEN play_queue_track(e1, 0)
              ELSE e1
    IN  send_queue_update(e2)

CmdAddToQueue(e, paths, rnd) ==
    LET was_empty == e.queue.items = <<>>
        e1 == [e EXCEPT !.queue = add(@, paths, rnd)]
        e2 == IF ~e1.is_playing /\ ~e1.sink.paused
              THEN IF was_empty THEN play_queue_track(e1, 0)
                   ELSE IF IsSome(next_index(e1.queue))
                   THEN play_queue_track(e1, Unwrap(next_index(e1.queue)))
                   ELSE e1
              ELSE e1
    IN  send_queue_update(e2)

CmdRemoveFromQueue(e, id, rnd) ==
    IF remove_found(e.queue, id)
    THEN send_queue_update([e EXCEPT !.queue = remove(@, id, rnd)])
    ELSE e

CmdClearQueue(e) ==
    LET e1 == IF e.is_playing
              THEN [perform_fade_out(e) EXCEPT !.sink = sink_stop(@),
                                               !.is_playing = FALSE]
              ELSE e
        e2 == [e1 EXCEPT !.queue = clear(@), !.current_audio = None]
    IN  Send(send_queue_update(e2), Stopped)

\* a mutant of set_loop_mode: the mode is set and shuffle_order is left as
\* it was
set_loop_mode_no_reshuffle(q, mode, rnd) ==
    [q EXCEPT !.loop_mode = mode]

\* queue.loop_mode = mode, and a reshuffle when the mode is Shuffle
set_loop_mode(q, mode, rnd) ==
    LET q1 == [q EXCEPT !.loop_mode = mode]
    IN  IF mode = "Shuffle" THEN reshuffle(q1, rnd) ELSE q1

CmdSetLoopMode(e, mode, rnd) ==
    Send([e EXCEPT !.queue = set_loop_mode(@, mode, rnd)],
         LoopModeChanged(mode))

\* a mutant of PlayQueueIndex: the index one past the end is let through
CmdPlayQueueIndex_past_end(e, index) ==
    IF index <= Len(e.queue.items) THEN play_queue_track(e, index)
    ELSE Send(e, Error("Invalid queue index"))

CmdPlayQueueIndex(e, index) ==
    IF index < Len(e.queue.items) THEN play_queue_track(e, index)
    ELSE Send(e, Error("Invalid queue index"))

\* tx.send(..) on the realtime channel of the engine: the message reaches
\* the source that holds the receiving end of the sender's channel, and is
\* lost when that source is gone
rt_send(e, msg) ==
    IF IsSome(e.rt_cmd_tx)
    THEN [e EXCEPT !.sink.sources =
            [i \in DOMAIN e.sink.sources |->
                IF e.sink.sources[i].tx_held
                THEN [e.sink.sources[i] EXCEPT !.cmd_rx = Append(@, msg)]
                ELSE e.sink.sources[i]]]
    ELSE e

\* 10^n
RECURSIVE Pow10(_)
Pow10(n) == IF n = 0 THEN 1 ELSE 10 * Pow10(n - 1)

\* 10^(gain_db / 20) in 1/1000, for the gains that are multiples of 20 dB
DbToLinear(gain_db) ==
    IF gain_db >= 0 THEN 1000 * Pow10(gain_db \div 20)
    ELSE 1000 \div Pow10((0 - gain_db) \div 20)

CmdEqSetEnabled(e, enabled) ==
    rt_send([e EXCEPT !.eq_enabled = enabled], SetEqEnabled(enabled))

CmdEqSetMasterGain(e, gain_db) ==
    LET linear_gain == DbToLinear(gain_db)
    IN  rt_send([e EXCEPT !.eq_shadow.master_gain = linear_gain],
                SetEqMasterGain(linear_gain))

CmdEqSetPreset(e, eq_preset) ==
    rt_send([e EXCEPT !.eq_shadow =
                parameters_changed([@ EXCEPT !.preset = eq_preset])],
            SetEqPreset(eq_preset))

CmdEqSetAllFilters(e, filters) ==
    rt_send([e EXCEPT !.eq_shadow =
                parameters_changed([@ EXCEPT !.filters = filters])],
            SetAllEqFilters(filters))

CmdEqResetParameters(e) ==
    rt_send([e EXCEPT !.eq_shadow =
                parameters_changed(reset_parameters(@))],
            ResetEq)

CmdEqResetFilterNode(e, index) ==
    rt_send([e EXCEPT !.eq_shadow = reset_filter_node_param(@, index).eq],
            ResetEqFilterNode(index))

process_command(e, cmd, rnd) ==
    CASE cmd.type = "Load" -> CmdLoad(e, cmd.path)
      [] cmd.type = "Play" -> CmdPlay(e)
      [] cmd.type = "Pause" -> CmdPause(e)
      [] cmd.type = "Stop" -> CmdStop(e)
      [] cmd.type = "SetVolume" -> CmdSetVolume(e, cmd.volume)
      [] cmd.type = "SetSpeed" -> CmdSetSpeed(e, cmd.speed)
      [] cmd.type = "Seek" -> CmdSeek(e, cmd.pos)
      [] cmd.type = "Next" -> CmdNext(e)
      [] cmd.type = "Previous" -> CmdPrevious(e)
      [] cmd.type = "Quit" -> CmdQuit(e)
      [] cmd.type = "AddToQueue" -> CmdAddToQueue(e, cmd.paths, rnd)
      [] cmd.type = "RemoveFromQueue" -> CmdRemoveFromQueue(e, cmd.id, rnd)
      [] cmd.type = "ClearQueue" -> CmdClearQueue(e)
      [] cmd.type = "SetLoopMode" -> CmdSetLoopMode(e, cmd.mode, rnd)
      [] cmd.type = "PlayQueueIndex" -> CmdPlayQueueIndex(e, cmd.index)
      [] cmd.type = "EqSetEnabled" -> CmdEqSetEnabled(e, cmd.enabled)
      [] cmd.type = "EqSetMasterGain" -> CmdEqSetMasterGain(e, cmd.gain_db)
      [] cmd.type = "EqSetPreset" -> CmdEqSetPreset(e, cmd.preset)
      [] cmd.type = "EqSetAllFilters" -> CmdEqSetAllFilters(e, cmd.filters)
      [] cmd.type = "EqResetParameters" -> CmdEqResetParameters(e)
      [] cmd.type = "EqResetFilterNode" -> CmdEqResetFilterNode(e, cmd.index)

\* a mutant of natural_end: the end of the queue sends Stopped only
natural_end_no_position(e) ==
    LET e1 == IF IsSome(e.current_audio)
              THEN [e EXCEPT !.position = 0] ELSE e
    IN  IF IsSome(next_index(e1.queue))
        THEN play_queue_track(e1, Unwrap(next_index(e1.queue)))
        ELSE Send([e1 EXCEPT !.is_playing = FALSE], Stopped)

\* the sink ran empty while playing: the track finished naturally
natural_end(e) ==
    LET e1 == IF IsSome(e.current_audio)
              THEN [e EXCEPT !.position = 0] ELSE e
    IN  IF IsSome(next_index(e1.queue))
        THEN play_queue_track(e1, Unwrap(next_index(e1.queue)))
        ELSE Send(Send([e1 EXCEPT !.is_playing = FALSE], Stopped),
                  PositionResp(0, 0))

\* the position update with the test of the pause left out
position_update_while_paused(e) ==
    IF ~sink_empty(e.sink) /\ IsSome(e.current_audio)
    THEN Send(e, PositionResp(
                position_seconds(e.position, Unwrap(e.current_audio)),
                duration_seconds(Unwrap(e.current_audio))))
    ELSE e

\* the position update at the end of an iteration of the loop
position_update(e) ==
    IF ~e.sink.paused /\ ~sink_empty(e.sink) /\ IsSome(e.current_audio)
    THEN Send(e, PositionResp(
                position_seconds(e.position, Unwrap(e.current_audio)),
                duration_seconds(Unwrap(e.current_audio))))
    ELSE e

\* the part of an iteration of run after the command was processed
loop_tail(e) ==
    LET e1 == IF e.is_playing /\ sink_empty(e.sink) /\ ~e.sink.paused
              THEN natural_end(e) ELSE e
    IN  position_update(e1)

----------------------------------------------------------------------------
(* Commands (AudioCommand) and the inputs the UI may send *)

\* raw volumes, speeds (1/1000) and seek times (frames) the UI sends
RawVolumes == {0, 500, 1200}
RawSpeeds == {50, 1000}
SeekTimes == {-1, 1, 3}

\* a seek time so far that frames * channels of a stereo file does not
\* fit a usize
FarSeek == Pow2(UsizeBits - 1)

\* the path lists of AddToQueue
AddLists == {<<>>} \cup {<<p>> : p \in Paths}
              \cup {<<p1, p2>> : p1 \in GoodPaths, p2 \in GoodPaths}

Cmds ==
    {[type |-> "Load", path |-> p] : p \in Paths}
    \cup {[type |-> t] : t \in {"Play", "Pause", "Stop", "Next", "Previous",
                                "Quit", "ClearQueue"}}
    \cup {[type |-> "SetVolume", volume |-> v] : v \in RawVolumes}
    \cup {[type |-> "SetSpeed", speed |-> v] : v \in RawSpeeds}
    \cup {[type |-> "Seek", pos |-> t] : t \in SeekTimes}
    \cup {[type |-> "AddToQueue", paths |-> l] : l \in AddLists}
    \cup {[type |-> "RemoveFromQueue", id |-> i] : i \in 0..MaxId}
    \cup {[type |-> "SetLoopMode", mode |-> m] : m \in LoopModes}
    \cup {[type |-> "PlayQueueIndex", index |-> i] : i \in 0..MaxItems}

\* the commands of the playback specification: all but Quit and the
\* volume and speed settings
PlayCmds == {c \in Cmds : c.type \notin {"Quit", "SetVolume", "SetSpeed"}}

\* the commands of the transport specification: loading, the transport
\* controls, the volume, and a queue that is filled, advanced and cleared
TransportCmds ==
    {c \in Cmds : c.type \in {"Load", "Play", "Pause", "Stop", "Seek",
                              "SetVolume", "AddToQueue", "Next",
                              "ClearQueue"}}
    \cup {[type |-> "Load", path |-> StereoPath],
          [type |-> "Seek", pos |-> FarSeek]}

\* the commands sent through the channel in the channel specification
ChanCmds ==
    {[type |-> t] : t \in {"Play", "Pause", "Stop", "Next", "Quit"}}
    \cup {[type |-> "Load", path |-> "a"],
          [type |-> "AddToQueue", paths |-> <<"a">>]}

\* a filter node as a caller may build it, every field out of range
RawNode == [id |-> 0, filter_type |-> "Peaking", freq |-> 50000,
            gain |-> 30, q |-> 20000, order |-> 20]

\* a filter node within the ranges: a fourth-order low shelf
TunedNode == [id |-> 0, filter_type |-> "LowShelf", freq |-> 80,
              gain |-> 6, q |-> 1000, order |-> 4]

\* the equalizer commands the UI sends
EqCmds ==
    {[type |-> "EqSetEnabled", enabled |-> b] : b \in BOOLEAN}
    \cup {[type |-> "EqSetMasterGain", gain_db |-> g] : g \in {0, 20}}
    \cup {[type |-> "EqSetPreset", preset |-> p] :
             p \in {"Flat", "BassBoosted"}}
    \cup {[type |-> "EqSetAllFilters", filters |-> l] :
             l \in {<<RawNode>>, <<TunedNode>>}}
    \cup {[type |-> "EqResetParameters"]}
    \cup {[type |-> "EqResetFilterNode", index |-> i] :
             i \in 0..MAX_EQ_FILTERS}

\* the commands of the equalizer specification
EqPlayCmds ==
    EqCmds \cup {[type |-> "Load", path |-> "a"], [type |-> "Play"],
                 [type |-> "Stop"], [type |-> "Seek", pos |-> 1]}

\* a command the model takes: the queue, the ids and the pending realtime
\* commands stay within the bounds
WithinBounds(cmd) ==
    /\ cmd.type = "AddToQueue" =>
        /\ Len(queue.items) + Len(cmd.paths) <= MaxItems
        /\ queue.next_id + Len(cmd.paths) <= MaxId
    /\ (cmd \in EqCmds /\ ~sink_empty(sink)) =>
        Len(sink.sources[Len(sink.sources)].cmd_rx) < MaxRt

\* the orders of n indices the engine's generator chooses among: the
\* first MaxDraws rotations, which are all the orders of up to two indices
DrawOrders(n) ==
    IF n = 0 THEN {<<>>}
    ELSE {[i \in 1..n |-> (i - 1 + r) % n] :
             r \in 0..((IF n < MaxDraws THEN n ELSE MaxDraws) - 1)}

\* the random draws a command may make: only reshuffle draws, an order of
\* the indices of the queue as the command leaves it
Draws(cmd) ==
    CASE cmd.type = "SetLoopMode" /\ cmd.mode = "Shuffle" ->
            DrawOrders(Len(queue.items))
      [] cmd.type = "AddToQueue" /\ queue.loop_mode = "Shuffle" ->
            DrawOrders(Len(queue.items) + Len(cmd.paths))
      [] cmd.type = "RemoveFromQueue" /\ queue.loop_mode = "Shuffle"
            /\ remove_found(queue, cmd.id) ->
            DrawOrders(Len(queue.items) - 1)
      [] OTHER -> {<<>>}

----------------------------------------------------------------------------
(* The state machine *)

Eng ==
    [queue |-> queue, sink |-> sink, current_audio |-> current_audio,
     position |-> position, is_playing |-> is_playing,
     target_volume |-> target_volume, eq_shadow |-> eq_shadow,
     eq_enabled |-> eq_enabled, rt_cmd_tx |-> rt_cmd_tx,
     out |-> <<>>, ret |-> TRUE]

Commit(e) ==
    /\ queue' = e.queue
    /\ sink' = e.sink
    /\ current_audio' = e.current_audio
    /\ position' = e.position
    /\ is_playing' = e.is_playing
    /\ target_volume' = e.target_volume
    /\ eq_shadow' = e.eq_shadow
    /\ eq_enabled' = e.eq_enabled
    /\ rt_cmd_tx' = e.rt_cmd_tx
    /\ resp' = e.out

\* AudioEngine::new: the equalizer fields
EngineEqInit ==
    /\ eq_shadow = EqualizerNew(44100, 2)
    /\ eq_enabled = FALSE
    /\ rt_cmd_tx = None

\* the equalizer and the source driven on their own are idle
AuxInit ==
    /\ dsp = DspNodeNew(EqualizerNew(44100, 1))
    /\ src = None
    /\ in_next = None
    /\ emitted = <<>>
    /\ reported = None
    /\ ui_is_playing = FALSE

Init ==
    /\ queue = QueueNew
    /\ sink = SinkNew
    /\ current_audio = None
    /\ position = 0
    /\ is_playing = FALSE
    /\ target_volume = 1000
    /\ pc = "recv"
    /\ resp = <<>>
    /\ shutdowns = 0
    /\ cmd_q = <<>>
    /\ connected = TRUE
    /\ visited = <<>>
    /\ EngineEqInit
    /\ AuxInit

\* run: recv_timeout returned Ok(cmd); the loop breaks when
\* process_command returns false, and Shutdown is sent after the loop
Handle(cmd, rnd) ==
    LET e == process_command(Eng, cmd, rnd)
    IN  IF e.ret
        THEN Commit(e) /\ pc' = "tick" /\ shutdowns' = shutdowns
        ELSE Commit(Send(e, Shutdown)) /\ pc' = "done"
             /\ shutdowns' = shutdowns + 1

\* the UI sends a command and the engine receives it at once
SendRecv(cmd) ==
    /\ pc = "recv"
    /\ connected
    /\ cmd_q = <<>>
    /\ WithinBounds(cmd)
    /\ \E rnd \in Draws(cmd) : Handle(cmd, rnd)
    /\ UNCHANGED <<cmd_q, connected, visited, auxVars>>

\* the UI sends a command into the channel
UiSend(cmd) ==
    /\ connected
    /\ pc # "done"
    /\ Len(cmd_q) < MaxCmdQ
    /\ cmd_q' = Append(cmd_q, cmd)
    /\ UNCHANGED <<engineVars, connected, visited, auxVars>>

\* the engine receives the oldest command of the channel
RecvOk ==
    /\ pc = "recv"
    /\ cmd_q # <<>>
    /\ WithinBounds(Head(cmd_q))
    /\ \E rnd \in Draws(Head(cmd_q)) : Handle(Head(cmd_q), rnd)
    /\ cmd_q' = Tail(cmd_q)
    /\ UNCHANGED <<connected, visited, auxVars>>

\* recv_timeout timed out: nothing in the channel for 50 ms
RecvTimeout ==
    /\ pc = "recv"
    /\ cmd_q = <<>>
    /\ connected
    /\ pc' = "tick"
    /\ resp' = <<>>
    /\ UNCHANGED <<queue, sink, current_audio, position, is_playing,
                   target_volume, shutdowns, cmd_q, connected, visited,
                   eqVars, auxVars>>

\* recv_timeout found the channel empty and every sender dropped
RecvDisconnected ==
    /\ pc = "recv"
    /\ cmd_q = <<>>
    /\ ~connected
    /\ pc' = "done"
    /\ resp' = <<Shutdown>>
    /\ shutdowns' = shutdowns + 1
    /\ UNCHANGED <<queue, sink, current_audio, position, is_playing,
                   target_volume, cmd_q, connected, visited, eqVars,
                   auxVars>>

\* the rest of the iteration: natural end of the track, position update
Tick ==
    /\ pc = "tick"
    /\ Commit(loop_tail(Eng))
    /\ pc' = "recv"
    /\ UNCHANGED <<shutdowns, cmd_q, connected, visited, auxVars>>

\* the UI drops its handle of the engine
UiDrop ==
    /\ connected
    /\ connected' = FALSE
    /\ UNCHANGED <<engineVars, cmd_q, visited, auxVars>>

\* the audio thread takes one sample of the source at the head of the
\* sink, or finds it exhausted and the sink drops it
AudioAdvance ==
    /\ pc # "done"
    /\ ~sink_empty(sink)
    /\ ~sink.paused
    /\ IF position < Head(sink.sources).total_samples
       THEN position' = position + 1 /\ sink' = sink
       ELSE position' = position
            /\ sink' = [sink EXCEPT !.sources = Tail(@)]
    /\ UNCHANGED <<queue, current_audio, is_playing, target_volume, pc,
                   resp, shutdowns, cmd_q, connected, visited, eqVars,
                   auxVars>>

\* the audio thread refills the buffer of the source at the head of the
\* sink and drains its realtime channel first
SourceDrain ==
    /\ pc # "done"
    /\ ~sink_empty(sink)
    /\ ~sink.paused
    /\ Head(sink.sources).cmd_rx # <<>>
    /\ sink' = [sink EXCEPT !.sources[1] = drain(@)]
    /\ UNCHANGED <<queue, current_audio, position, is_playing,
                   target_volume, pc, resp, shutdowns, cmd_q, connected,
                   visited, eqVars, auxVars>>

Next ==
    \/ \E cmd \in PlayCmds : SendRecv(cmd)
    \/ RecvTimeout
    \/ Tick
    \/ AudioAdvance

Spec == Init /\ [][Next]_vars

\* the equalizer specification: the engine takes equalizer commands
\* between loads, seeks and stops while the audio thread plays and drains
NextEq ==
    \/ \E cmd \in EqPlayCmds : SendRecv(cmd)
    \/ RecvTimeout
    \/ Tick
    \/ SourceDrain

SpecEq == Init /\ [][NextEq]_vars

\* the transport specification: the engine takes the transport and volume
\* commands while the audio thread plays
NextTransport ==
    \/ \E cmd \in TransportCmds : SendRecv(cmd)
    \/ RecvTimeout
    \/ Tick
    \/ AudioAdvance

SpecTransport == Init /\ [][NextTransport]_vars

----------------------------------------------------------------------------
(* An equalizer node driven on its own: its parameters are edited between  *)
(* the frames it processes.                                                *)

\* filter nodes set up through the setters of FilterNode
DspNodes ==
    {set_order(set_gain(FilterNodeNew(0, 1000), 30), o) : o \in {2, 4}}

\* the filter lists of set_all_filters
DspLists == {<<>>, <<TunedNode>>, <<TunedNode, TunedNode>>}

\* the frames the equalizer is given
Frames == {<<s>> : s \in 1..(SampleMod - 1)}

notDsp == <<engineVars, cmd_q, connected, visited, src, in_next,
            reported, ui_is_playing>>

DspSetFilter(idx, node) ==
    /\ dsp' = set_filter(dsp, idx, node)
    /\ UNCHANGED <<notDsp, emitted>>

DspSetAllFilters(nodes) ==
    /\ dsp' = set_all_filters(dsp, nodes)
    /\ UNCHANGED <<notDsp, emitted>>

DspSetMasterGain(gain) ==
    /\ dsp' = set_master_gain(dsp, gain)
    /\ UNCHANGED <<notDsp, emitted>>

DspUpdatePreset(preset) ==
    /\ dsp' = [dsp EXCEPT !.instance = update_preset(@, preset)]
    /\ UNCHANGED <<notDsp, emitted>>

DspResetParameters ==
    /\ dsp' = [dsp EXCEPT !.instance = reset_parameters(@)]
    /\ UNCHANGED <<notDsp, emitted>>

DspResetFilterNode(k) ==
    /\ dsp' = [dsp EXCEPT !.instance = reset_filter_node_param(@, k).eq]
    /\ UNCHANGED <<notDsp, emitted>>

DspProcessFrame(frame) ==
    /\ Len(emitted) < MaxFrames
    /\ LET r == process_frame(dsp.instance, frame)
       IN  /\ dsp' = [dsp EXCEPT !.instance = r.eq]
           /\ emitted' = emitted \o r.frame
    /\ UNCHANGED notDsp

NextDsp ==
    \/ \E idx \in 0..MAX_EQ_FILTERS : \E node \in DspNodes :
          DspSetFilter(idx, node)
    \/ \E nodes \in DspLists : DspSetAllFilters(nodes)
    \/ \E gain \in {1000, 2000} : DspSetMasterGain(gain)
    \/ \E preset \in {"Flat", "BassBoosted"} : DspUpdatePreset(preset)
    \/ DspResetParameters
    \/ \E k \in 0..MAX_EQ_FILTERS : DspResetFilterNode(k)
    \/ \E frame \in Frames : DspProcessFrame(frame)

SpecDsp == Init /\ [][NextDsp]_vars

----------------------------------------------------------------------------
(* A buffered source driven on its own: the audio thread calls next()      *)
(* while the engine thread seeks and resets the position tracker they      *)
(* share.  visited logs what the engine stored in the tracker since the    *)
(* source was created, the position it was created at first.               *)

\* the track of the source: stereo
SrcPayload ==
    [metadata |-> [path |-> "a", sample_rate |-> 44100, num_channels |-> 2],
     total_samples |-> 2 * SrcFrames]

\* seek times, in frames: before the start, inside the track, its end,
\* and beyond what a usize holds once doubled
SrcSeekTimes == {-1, 0, 1, SrcFrames, Pow2(UsizeBits - 1), Pow2(UsizeBits)}

\* the realtime commands the source is sent before it is first polled
SrcCmds == {SetEqEnabled(TRUE), SetAllEqFilters(<<>>),
            SetEqMasterGain(2000)}

\* next() has found the end of the stream
EndOfStream == Some([end_of_stream |-> TRUE])

notSource == <<queue, sink, current_audio, is_playing, target_volume, resp,
               shutdowns, cmd_q, connected, eqVars, dsp, reported,
               ui_is_playing>>

\* the engine appends a source that starts from the tracked position
SrcCreate ==
    /\ pc # "done"
    /\ src = None
    /\ src' = Some(create_source(SrcPayload, EqualizerNew(44100, 2), FALSE))
    /\ in_next' = None
    /\ emitted' = <<>>
    /\ visited' = <<position>>
    /\ UNCHANGED <<notSource, position, pc>>

\* the engine sends a realtime command to the source
SrcSend(cmd) ==
    /\ pc # "done"
    /\ src # None
    /\ in_next = None
    /\ emitted = <<>>
    /\ Unwrap(src).process_buffer = <<>>
    /\ Len(Unwrap(src).cmd_rx) < MaxRt
    /\ src' = Some([Unwrap(src) EXCEPT !.cmd_rx = Append(@, cmd)])
    /\ UNCHANGED <<notSource, position, pc, in_next, emitted, visited>>

\* next(), up to the load of the position: the buffer is refilled when it
\* is used up, a sample is taken from it, the position is read
SrcNextTake ==
    /\ src # None
    /\ in_next = None
    /\ LET s == Unwrap(src)
           f == IF s.process_buffer_idx >= Len(s.process_buffer)
                THEN fill_buffer(s, position)
                ELSE [ok |-> TRUE, source |-> s]
           idx == f.source.process_buffer_idx
       IN  IF f.ok /\ idx < Len(f.source.process_buffer)
           THEN /\ src' = Some([f.source EXCEPT
                                  !.process_buffer_idx = idx + 1])
                /\ in_next' = Some([sample |-> f.source.process_buffer[idx + 1],
                                    pos |-> position])
           ELSE /\ src' = Some(f.source)
                /\ in_next' = EndOfStream
    /\ UNCHANGED <<notSource, position, pc, emitted, visited>>

\* next(), the rest: the position read plus one is stored and the sample
\* is returned
SrcNextStore ==
    /\ in_next # None
    /\ in_next # EndOfStream
    /\ position' = Unwrap(in_next).pos + 1
    /\ emitted' = Append(emitted, Unwrap(in_next).sample)
    /\ in_next' = None
    /\ UNCHANGED <<notSource, pc, src, visited>>

\* the sink drops the source that reported the end of the stream
SrcDrop ==
    /\ in_next = EndOfStream
    /\ src' = None
    /\ in_next' = None
    /\ UNCHANGED <<notSource, position, pc, emitted, visited>>

\* the engine stored a position: it is logged while a source lives, and
\* the log of the last source is dropped otherwise
Stored(pos) ==
    /\ position' = pos
    /\ IF src # None
       THEN /\ Len(visited) <= MaxSeeks
            /\ visited' = Append(visited, pos)
            /\ emitted' = emitted
       ELSE /\ visited' = <<>>
            /\ emitted' = <<>>

\* PositionTracker::seek_to_seconds on the engine thread; when the
\* multiplication overflows the thread panics or stores the wrapped index,
\* as the build has it
TrackerSeek(t) ==
    /\ pc # "done"
    /\ \/ /\ Stored(seek_to_seconds(t, SrcPayload))
          /\ pc' = pc
       \/ /\ seek_overflows(t, SrcPayload)
          /\ pc' = "done"
          /\ UNCHANGED <<position, visited, emitted>>
    /\ UNCHANGED <<notSource, src, in_next>>

\* PositionTracker::reset on the engine thread
TrackerReset ==
    /\ pc # "done"
    /\ Stored(0)
    /\ UNCHANGED <<notSource, pc, src, in_next>>

NextSource ==
    \/ SrcCreate
    \/ \E cmd \in SrcCmds : SrcSend(cmd)
    \/ SrcNextTake
    \/ SrcNextStore
    \/ SrcDrop
    \/ \E t \in SrcSeekTimes : TrackerSeek(t)
    \/ TrackerReset

SpecSource == Init /\ [][NextSource]_vars

NextChan ==
    \/ \E cmd \in ChanCmds : UiSend(cmd)
    \/ RecvOk
    \/ RecvTimeout
    \/ RecvDisconnected
    \/ Tick
    \/ UiDrop
    \/ AudioAdvance

SpecChan == Init /\ [][NextChan]_vars

----------------------------------------------------------------------------
(* The queue alone: its operations applied in any order, and walks of       *)
(* next_index().  Only queue and visited change.                            *)

QAddLists == {<<"a">>, <<"a", "a">>}

notQueue == <<sink, current_audio, position, is_playing, target_volume, pc,
              resp, shutdowns, cmd_q, connected, eqVars, auxVars>>

\* the random draws of a queue operation that leaves n items: an order
\* of 0..n-1 when the operation reshuffles
QDraws(reshuffles, n) == IF reshuffles THEN Orders(n) ELSE {<<>>}

QAdd(paths) ==
    /\ Len(queue.items) + Len(paths) <= MaxQItems
    /\ queue.next_id + Len(paths) <= MaxQId
    /\ \E rnd \in QDraws(queue.loop_mode = "Shuffle",
                         Len(queue.items) + Len(paths)) :
          queue' = add(queue, paths, rnd)
    /\ visited' = <<>>
    /\ UNCHANGED notQueue

QRemove(id) ==
    /\ \E rnd \in QDraws(queue.loop_mode = "Shuffle"
                            /\ remove_found(queue, id),
                         Len(queue.items) - 1) :
          queue' = remove(queue, id, rnd)
    /\ visited' = <<>>
    /\ UNCHANGED notQueue

QClear ==
    /\ queue' = clear(queue)
    /\ visited' = <<>>
    /\ UNCHANGED notQueue

QSetLoopMode(mode) ==
    /\ \E rnd \in QDraws(mode = "Shuffle", Len(queue.items)) :
          queue' = set_loop_mode(queue, mode, rnd)
    /\ visited' = <<>>
    /\ UNCHANGED notQueue

QReshuffle ==
    /\ \E rnd \in Orders(Len(queue.items)) : queue' = reshuffle(queue, rnd)
    /\ visited' = <<>>
    /\ UNCHANGED notQueue

\* play_queue_track's assignment of current_index, for an index get() finds
QPlay(index) ==
    /\ IsSome(get(queue, index))
    /\ queue' = [queue EXCEPT !.current_index = Some(index)]
    /\ visited' = <<>>
    /\ UNCHANGED notQueue

\* one step of a walk: current_index becomes next_index(); a walk is
\* followed for len(items) steps
QNext ==
    /\ IsSome(next_index(queue))
    /\ queue' = [queue EXCEPT !.current_index = next_index(queue)]
    /\ visited' = IF Len(visited) < Len(queue.items)
                  THEN Append(visited, Unwrap(next_index(queue)))
                  ELSE <<Unwrap(next_index(queue))>>
    /\ UNCHANGED notQueue

QPrev ==
    /\ IsSome(prev_index(queue))
    /\ queue' = [queue EXCEPT !.current_index = prev_index(queue)]
    /\ visited' = <<>>
    /\ UNCHANGED notQueue

NextQueue ==
    \/ \E paths \in QAddLists : QAdd(paths)
    \/ \E id \in 0..MaxQId : QRemove(id)
    \/ QClear
    \/ \E mode \in LoopModes : QSetLoopMode(mode)
    \/ QReshuffle
    \/ \E index \in 0..(MaxQItems - 1) : QPlay(index)
    \/ QNext
    \/ QPrev

SpecQueue == Init /\ [][NextQueue]_vars

----------------------------------------------------------------------------
(* Walks of next_index() in Shuffle mode: the queue starts with n items,   *)
(* any shuffle order and any current index, as add, SetLoopMode(Shuffle)   *)
(* and play_queue_track leave it.                                          *)

WalkQueue(n, order, index) ==
    [items |-> [k \in 1..n |->
                  [id |-> k - 1, path |-> "a", metadata |-> None]],
     current_index |-> Some(index), loop_mode |-> "Shuffle",
     shuffle_order |-> order, next_id |-> n]

InitWalk ==
    /\ \E n \in 1..WalkItems : \E order \in Orders(n) :
          \E index \in 0..(n - 1) : queue = WalkQueue(n, order, index)
    /\ sink = SinkNew
    /\ current_audio = None
    /\ position = 0
    /\ is_playing = FALSE
    /\ target_volume = 1000
    /\ pc = "recv"
    /\ resp = <<>>
    /\ shutdowns = 0
    /\ cmd_q = <<>>
    /\ connected = TRUE
    /\ visited = <<>>
    /\ EngineEqInit
    /\ AuxInit

NextWalk ==
    \/ QNext
    \/ QPrev

SpecWalk == InitWalk /\ [][NextWalk]_vars

----------------------------------------------------------------------------
(* Properties of the playback queue *)

\* order holds every index of 0..n-1 exactly once
IsPermutation(order, n) ==
    /\ Len(order) = n
    /\ \A i \in 0..(n - 1) :
          Cardinality({k \in 1..Len(order) : order[k] = i}) = 1

\* an item was removed while a later one stayed: the ids have a gap
RemoveHasActed ==
    \E k \in 1..Len(queue.items) : queue.items[k].id # k - 1

\* C5: current_index is None or the index of an item of the queue, after
\* any commands of the engine (add, remove, clear, track changes).
C5_CurrentIndexInRange ==
    IsSome(queue.current_index) =>
        /\ Unwrap(queue.current_index) >= 0
        /\ Unwrap(queue.current_index) < Len(queue.items)

\* the engine removed the last item of a queue of two while it was current
\* (track 1 is still the payload), and the index was clamped to 0
C5_Witness ==
    /\ pc = "tick"
    /\ resp = <<QueueUpdated(queue.items)>>
    /\ Len(queue.items) = 1
    /\ queue.next_id = 2
    /\ queue.items[1].id = 0
    /\ queue.current_index = Some(0)
    /\ is_playing

\* C6 as stated: shuffle_order is a permutation of 0..len(items)-1 after
\* any sequence of add, remove, clear, reshuffle and SetLoopMode.
C6_AlwaysPermutation ==
    IsPermutation(queue.shuffle_order, Len(queue.items))

\* C6, amended: whenever the loop mode is Shuffle, shuffle_order is a
\* permutation of 0..len(items)-1.
C6_PermutationInShuffle ==
    queue.loop_mode = "Shuffle" =>
        IsPermutation(queue.shuffle_order, Len(queue.items))

\* Shuffle mode, three items left after a removal, reshuffled out of order
C6_Witness ==
    /\ queue.loop_mode = "Shuffle"
    /\ Len(queue.items) = 3
    /\ RemoveHasActed
    /\ queue.shuffle_order = <<2, 0, 1>>

\* C7: next_index and prev_index in the modes Off, RepeatOne and LoopAll,
\* for a queue of N items whose current index is i.
C7_NextPrevTable ==
    (IsSome(queue.current_index) /\ queue.items # <<>>) =>
        LET N == Len(queue.items)
            i == Unwrap(queue.current_index)
        IN  /\ queue.loop_mode = "Off" =>
                /\ next_index(queue) =
                      (IF i + 1 < N THEN Some(i + 1) ELSE None)
                /\ prev_index(queue) =
                      (IF i > 0 THEN Some(i - 1) ELSE None)
            /\ queue.loop_mode = "RepeatOne" =>
                /\ next_index(queue) = Some(i)
                /\ prev_index(queue) = Some(i)
            /\ queue.loop_mode = "LoopAll" =>
                /\ next_index(queue) = Some((i + 1) % N)
                /\ prev_index(queue) = Some((i - 1) % N)

\* LoopAll, three items: a walk has wrapped from the last index to 0, so
\* prev_index wraps back from 0
C7_Witness ==
    /\ queue.loop_mode = "LoopAll"
    /\ Len(queue.items) = 3
    /\ Len(visited) >= 2
    /\ visited[Len(visited) - 1] = 2
    /\ visited[Len(visited)] = 0
    /\ queue.current_index = Some(0)

\* the queue after current_index was set to next_index()
MovedNext(q) == [q EXCEPT !.current_index = next_index(q)]

\* C8 as stated: in every mode but RepeatOne, for a non-empty queue with a
\* current index, prev_index() after moving to next_index() is the
\* original index.
C8_NextThenPrev ==
    (queue.items # <<>> /\ IsSome(queue.current_index)
        /\ queue.loop_mode # "RepeatOne") =>
        prev_index(MovedNext(queue)) = queue.current_index

\* C8, amended: the same whenever next_index() returns an index (it
\* returns None in mode Off at the last item).
C8_NextThenPrevWhenSome ==
    (queue.items # <<>> /\ IsSome(queue.current_index)
        /\ queue.loop_mode # "RepeatOne" /\ IsSome(next_index(queue))) =>
        prev_index(MovedNext(queue)) = queue.current_index

\* Shuffle mode, three items, after two steps of a walk: prev_index gives
\* the index the last step left, also across the wrap of shuffle_order
C8_Witness ==
    /\ queue.loop_mode = "Shuffle"
    /\ Len(queue.items) = 3
    /\ Len(visited) >= 2
    /\ queue.current_index = Some(At(queue.shuffle_order, 0))
    /\ prev_index(queue) = Some(visited[Len(visited) - 1])

\* C9: in Shuffle mode the steps of a walk of next_index() visit pairwise
\* different indices, and len(items) steps visit every index.
C9_ShuffleWalk ==
    queue.loop_mode = "Shuffle" =>
        /\ \A j, k \in 1..Len(visited) : j # k => visited[j] # visited[k]
        /\ Range(visited) \subseteq 0..(Len(queue.items) - 1)
        /\ Len(visited) = Len(queue.items) =>
              Range(visited) = 0..(Len(queue.items) - 1)

\* five items in a shuffled order, five steps walked
C9_Witness ==
    /\ queue.loop_mode = "Shuffle"
    /\ Len(queue.items) = 5
    /\ queue.shuffle_order = <<3, 0, 4, 1, 2>>
    /\ Len(visited) = 5

\* what remove(id) does to a queue q, giving q2
RemovePost(q, q2, id) ==
    IF \E k \in 1..Len(q.items) : q.items[k].id = id
    THEN LET k == CHOOSE k \in 1..Len(q.items) : q.items[k].id = id
             pos == k - 1
         IN  /\ Len(q2.items) = Len(q.items) - 1
             /\ \A j \in 1..Len(q2.items) :
                   q2.items[j] = q.items[IF j < k THEN j ELSE j + 1]
             /\ q2.loop_mode = q.loop_mode
             /\ q2.next_id = q.next_id
             /\ IF q.current_index = None THEN q2.current_index = None
                ELSE LET idx == Unwrap(q.current_index)
                     IN  IF pos < idx
                         THEN q2.current_index = Some(idx - 1)
                         ELSE IF pos > idx
                         THEN q2.current_index = Some(idx)
                         ELSE IF Len(q2.items) = 0
                         THEN q2.current_index = None
                         ELSE IF idx > Len(q2.items) - 1
                         THEN q2.current_index = Some(Len(q2.items) - 1)
                         ELSE q2.current_index = Some(idx)
    ELSE /\ ~remove_found(q, id)
         /\ q2 = q

\* C10: in every queue the operations reach, with every outcome of the
\* reshuffle, remove(id) of an item of the queue takes exactly that item out and
\* adjusts current_index (one less if the item was before the current one,
\* the same if after, clamped to the last index or None if it was the
\* current one); remove(id) of an id not in the queue returns false and
\* changes nothing.
C10_Remove ==
    \A id \in 0..MaxQId :
       \A rnd \in QDraws(queue.loop_mode = "Shuffle"
                            /\ remove_found(queue, id),
                         Len(queue.items) - 1) :
          RemovePost(queue, remove(queue, id, rnd), id)

\* the item before the current one was removed: ids 1 and 2 are left and
\* the current index is 0 or 1
C10_Witness ==
    /\ Len(queue.items) = 2
    /\ queue.items[1].id = 1
    /\ queue.items[2].id = 2
    /\ IsSome(queue.current_index)

----------------------------------------------------------------------------
(* Properties of the engine *)

\* the loop is about to find the sink empty while playing and not paused
NaturalEndPre ==
    pc = "tick" /\ is_playing /\ sink_empty(sink) /\ ~sink.paused

\* this step is a step of the engine's loop
EngineStep == pc' # pc

\* queue track i was played by the step that left the engine as e: the
\* three responses in a row, the index recorded, the new source in the sink
TrackChangeIn(e, i) ==
    /\ i < Len(e.queue.items)
    /\ LET path == At(e.queue.items, i).path
           m == Metadata(path)
       IN  /\ \E k \in 1..(Len(e.out) - 2) :
                 /\ e.out[k] = TrackChanged(i, m)
                 /\ e.out[k + 1] = Loaded(m)
                 /\ e.out[k + 2] = Playing
           /\ e.queue.current_index = Some(i)
           /\ e.current_audio = Some(load_local_audio(path))
           /\ e.is_playing
           /\ ~e.sink.paused
           /\ e.sink.sources =
                 <<create_source(load_local_audio(path), e.eq_shadow,
                                 e.eq_enabled)>>

\* the same of the step being taken
TrackChangeDone(i) ==
    TrackChangeIn([queue |-> queue', sink |-> sink',
                   current_audio |-> current_audio',
                   is_playing |-> is_playing', eq_shadow |-> eq_shadow',
                   eq_enabled |-> eq_enabled', out |-> resp'], i)

DecodableAt(q, i) == i < Len(q.items) /\ Decodable(At(q.items, i).path)

\* C1: a loop iteration that finds the sink empty while is_playing and not
\* paused resets the position and asks next_index(): Some(i) plays track i,
\* None clears is_playing and sends Stopped, Position{0,0}.  A queue of two
\* in mode Off sends TrackChanged{1} when track 0 ends and Stopped,
\* Position{0,0} when track 1 ends.
C1_NaturalEnd ==
    [][(NaturalEndPre /\ EngineStep) =>
         /\ position' = 0
         /\ IF IsSome(next_index(queue))
            THEN DecodableAt(queue, Unwrap(next_index(queue))) =>
                    /\ TrackChangeDone(Unwrap(next_index(queue)))
                    /\ resp'[1].type = "TrackChanged"
            ELSE /\ ~is_playing'
                 /\ resp' = <<Stopped, PositionResp(0, 0)>>
         /\ (/\ Len(queue.items) = 2
             /\ queue.loop_mode = "Off"
             /\ DecodableAt(queue, 0) /\ DecodableAt(queue, 1)) =>
               /\ queue.current_index = Some(0) =>
                     resp'[1] = TrackChanged(1, Metadata(queue.items[2].path))
               /\ queue.current_index = Some(1) =>
                     resp' = <<Stopped, PositionResp(0, 0)>>]_vars

\* a queue of two in mode Off played both tracks to the end and stopped
C1_Witness ==
    /\ pc = "recv"
    /\ resp = <<Stopped, PositionResp(0, 0)>>
    /\ ~is_playing
    /\ queue.loop_mode = "Off"
    /\ Len(queue.items) = 2
    /\ queue.current_index = Some(1)
    /\ \A k \in 1..2 : IsSome(queue.items[k].metadata)
    /\ position = 0

DecodeErrors == {Error("Failed to load audio"), Error("Failed to load track")}

\* C2: a step of the engine that reports a decode failure (of Load or of a
\* queue track change) sends exactly one Error and leaves the payload,
\* current_index, is_playing and the sources of the sink as they were.
C2_FailureLeavesState ==
    [][(EngineStep /\ \E k \in 1..Len(resp') : resp'[k] \in DecodeErrors) =>
         /\ Cardinality({k \in 1..Len(resp') : resp'[k].type = "Error"}) = 1
         /\ current_audio' = current_audio
         /\ queue'.current_index = queue.current_index
         /\ is_playing' = is_playing
         /\ sink'.sources = sink.sources]_vars

\* C3: every successful queue track change (from Next, Previous,
\* PlayQueueIndex, the auto-start of AddToQueue, the natural end) records
\* the index and sends TrackChanged, Loaded, Playing in a row; afterwards
\* is_playing holds and the sink holds the new source.  The first part is
\* about the steps of the loop, the second about process_command applied
\* to a command that changes the track, in every state where the loop is
\* about to receive.
C3_TrackChange ==
    /\ [][EngineStep =>
            /\ \A k \in 1..Len(resp') :
                  resp'[k].type = "TrackChanged" =>
                     /\ TrackChangeDone(resp'[k].index)
                     /\ k + 2 <= Len(resp')
                     /\ resp'[k + 1] = Loaded(resp'[k].metadata)
                     /\ resp'[k + 2] = Playing
            /\ (NaturalEndPre /\ IsSome(next_index(queue))
                  /\ DecodableAt(queue, Unwrap(next_index(queue)))) =>
                  TrackChangeDone(Unwrap(next_index(queue)))]_vars
    /\ [](\A cmd \in PlayCmds :
            LET changes ==
                  CASE cmd.type = "Next" -> next_index(queue)
                    [] cmd.type = "Previous" -> prev_index(queue)
                    [] cmd.type = "PlayQueueIndex" -> Some(cmd.index)
                    [] cmd.type = "AddToQueue" /\ ~is_playing
                          /\ ~sink.paused /\ cmd.paths # <<>>
                          /\ queue.items = <<>> -> Some(0)
                    [] cmd.type = "AddToQueue" /\ ~is_playing
                          /\ ~sink.paused /\ cmd.paths # <<>>
                          /\ queue.items # <<>>
                          /\ queue.loop_mode = "Off"
                          /\ queue.current_index =
                                Some(Len(queue.items) - 1) ->
                          Some(Len(queue.items))
                    [] OTHER -> None
            IN  (pc = "recv" /\ WithinBounds(cmd) /\ IsSome(changes)) =>
                   \A rnd \in Draws(cmd) :
                      LET e == process_command(Eng, cmd, rnd)
                          i == Unwrap(changes)
                      IN  (i < Len(e.queue.items)
                             /\ Decodable(At(e.queue.items, i).path)) =>
                             TrackChangeIn(e, i))

\* AddToQueue found the queue ended at index 0 and started the track it
\* added at index 1
C3_Witness ==
    /\ pc = "tick"
    /\ Len(resp) = 4
    /\ resp[1].type = "TrackChanged"
    /\ resp[1].index = 1
    /\ resp[4].type = "QueueUpdated"
    /\ queue.current_index = Some(1)
    /\ is_playing
    /\ Len(sink.sources) = 1

\* C4: the loop ends when it receives Quit or finds the channel
\* disconnected, and only then; Shutdown is sent exactly once, on exit, as
\* the last response; no command left in the channel is processed later.
C4_Termination ==
    /\ [](/\ shutdowns <= 1
          /\ pc = "done" <=> shutdowns = 1
          /\ \A k \in 1..Len(resp) :
                resp[k] = Shutdown => (pc = "done" /\ k = Len(resp))
          /\ pc = "done" => (resp # <<>> /\ resp[Len(resp)] = Shutdown))
    /\ [][/\ (EngineStep /\ pc = "recv" /\ cmd_q # <<>>
                /\ Head(cmd_q).type = "Quit") => pc' = "done"
          /\ (EngineStep /\ pc = "recv" /\ cmd_q = <<>> /\ ~connected) =>
                pc' = "done"
          /\ (EngineStep /\ pc' = "done") =>
                /\ pc = "recv"
                /\ \/ cmd_q # <<>> /\ Head(cmd_q).type = "Quit"
                   \/ cmd_q = <<>> /\ ~connected
          /\ pc = "done" => UNCHANGED <<engineVars, cmd_q>>]_vars

\* the engine has quit with commands still in the channel behind Quit
C4_Witness ==
    /\ pc = "done"
    /\ shutdowns = 1
    /\ cmd_q # <<>>
    /\ connected
    /\ resp = <<Shutdown>>

----------------------------------------------------------------------------
(* C11: ids *)

\* the ids of the items of a queue
ItemIds(q) == {q.items[k].id : k \in 1..Len(q.items)}

\* C11: add hands out ids above every id handed out before, also after
\* remove and clear (next_id never goes down and every new item has an id
\* from the old next_id on), no two items share an id, and an item keeps
\* its id while it is in the queue.
C11_FreshIds ==
    /\ [](/\ \A k \in 1..Len(queue.items) : queue.items[k].id < queue.next_id
          /\ \A j, k \in 1..Len(queue.items) :
                j < k => queue.items[j].id < queue.items[k].id)
    /\ [][/\ queue'.next_id >= queue.next_id
          /\ \A k \in 1..Len(queue'.items) :
                LET item == queue'.items[k]
                IN  IF item.id \in ItemIds(queue)
                    THEN \E j \in 1..Len(queue.items) :
                            /\ queue.items[j].id = item.id
                            /\ queue.items[j].path = item.path
                    ELSE item.id >= queue.next_id]_vars

\* an item added after a clear of a queue that had handed out ids 0..2
C11_Witness ==
    /\ Len(queue.items) = 1
    /\ queue.items[1].id = 3
    /\ queue.next_id = 4

----------------------------------------------------------------------------
(* The shadow equalizer and the equalizer of the live source *)

\* the source the realtime channel of the engine leads to, with every
\* pending realtime command applied
LiveSource(e) == drain(e.sink.sources[Len(e.sink.sources)])

\* the equalizer of the live source, once drained, has the preset, the
\* filter list and the master gain of the shadow, and is on exactly when
\* eq_enabled is set
InSync(e) ==
    LET node == LiveSource(e).equalizer
    IN  /\ node.instance.preset = e.eq_shadow.preset
        /\ node.instance.filters = e.eq_shadow.filters
        /\ node.instance.master_gain = e.eq_shadow.master_gain
        /\ node.on = e.eq_enabled

\* C12: while a source is live and its equalizer agrees with the shadow,
\* whatever equalizer command the engine processes next, the source agrees
\* with the shadow and with eq_enabled again once it has drained its
\* realtime channel: preset, filter list, master gain and enabled flag
C12_ShadowMatchesLive ==
    (pc = "recv" /\ ~sink_empty(sink) /\ InSync(Eng)) =>
        \A cmd \in EqCmds : InSync(process_command(Eng, cmd, <<>>))

\* an engine step appended a source: the sink holds a source it did not
\* hold before, and nothing was sent to it yet
SourceCreated ==
    /\ pc = "recv"
    /\ pc' # "recv"
    /\ sink'.sources # <<>>
    /\ sink'.sources # sink.sources
    /\ sink'.sources[Len(sink'.sources)].cmd_rx = <<>>

\* C13: every source the engine creates (Load, Play, Seek, track change)
\* starts with the filter list, the master gain and the preset of the
\* shadow equalizer and with its enabled flag equal to eq_enabled
C13_SourceSeededFromShadow ==
    [][SourceCreated =>
        LET node == sink'.sources[Len(sink'.sources)].equalizer
        IN  /\ node.instance.filters = eq_shadow'.filters
            /\ node.instance.master_gain = eq_shadow'.master_gain
            /\ node.instance.preset = eq_shadow'.preset
            /\ node.on = eq_enabled']_vars

----------------------------------------------------------------------------
(* Clamping of the filter parameters *)

\* the documented ranges of a filter node
InRange(node) ==
    /\ 20 <= node.freq /\ node.freq <= 20000
    /\ -20 <= node.gain /\ node.gain <= 20
    /\ 100 <= node.q /\ node.q <= 10000
    /\ 1 <= node.order /\ node.order <= 16

AllInRange(filters) == \A i \in 1..Len(filters) : InRange(filters[i])

\* C14: every filter node stored in the shadow equalizer, in the equalizer
\* of a source of the sink or in an equalizer node driven on its own reads
\* back inside the documented ranges, whatever raw input reached it
C14_StoredFiltersClamped ==
    /\ AllInRange(eq_shadow.filters)
    /\ \A i \in 1..Len(sink.sources) :
          AllInRange(sink.sources[i].equalizer.instance.filters)
    /\ AllInRange(dsp.instance.filters)

----------------------------------------------------------------------------
(* Filter memory across parameter changes *)

\* the filter lists with as many bands as the equalizer has
SameBandLists(eq) == [1..Len(eq.filters) -> DspNodes \cup {TunedNode}]

\* neither the channel count nor the band count changes
NonStructural(eq, nodes) ==
    /\ Len(eq.processors) = eq.num_channels
    /\ \A ch \in 1..Len(eq.processors) : Len(eq.processors[ch]) = Len(nodes)

\* every chain of eq2 has the sections its band asks for; the sections eq
\* had keep their memory and the sections appended start from zero
MemoryKept(eq, eq2) ==
    /\ Len(eq2.processors) = Len(eq.processors)
    /\ \A ch \in 1..Len(eq.processors) :
          /\ Len(eq2.processors[ch]) = Len(eq.processors[ch])
          /\ \A i \in 1..Len(eq.processors[ch]) :
                LET old == eq.processors[ch][i]
                    new == eq2.processors[ch][i]
                IN  /\ Len(new) = section_count(eq2.filters[i].order)
                    /\ \A k \in 1..Len(new) :
                          IF k <= Len(old)
                          THEN new[k].z1 = old[k].z1 /\ new[k].z2 = old[k].z2
                          ELSE new[k].z1 = 0 /\ new[k].z2 = 0

\* the biquad sections of an equalizer
Sections(eq) ==
    UNION {UNION {Range(eq.processors[ch][i]) :
                     i \in 1..Len(eq.processors[ch])} :
              ch \in 1..Len(eq.processors)}

\* C15: a parameter change that keeps the channel and band counts keeps
\* z1 and z2 of every section that exists before and after, appends new
\* sections with zero memory when an order grows and drops sections from
\* the end only when it shrinks; Biquad::update never writes z1 or z2
C15_FilterMemoryKept ==
    /\ \A nodes \in SameBandLists(dsp.instance) :
          NonStructural(dsp.instance, nodes) =>
              MemoryKept(dsp.instance,
                         parameters_changed(
                            [dsp.instance EXCEPT !.filters = nodes]))
    /\ \A bq \in Sections(dsp.instance) :
          \A node \in DspNodes \cup {TunedNode} :
              LET upd == biquad_update(bq, node, dsp.instance.sample_rate)
              IN  upd.z1 = bq.z1 /\ upd.z2 = bq.z2

\* a band of fourth order whose first section holds memory of the audio
\* processed and whose second section was appended with none
C15_Witness ==
    /\ emitted # <<>>
    /\ \E i \in 1..Len(dsp.instance.filters) :
          LET chain == dsp.instance.processors[1][i]
          IN  /\ dsp.instance.filters[i].order = 4
              /\ Len(chain) = 2
              /\ chain[1].z1 # 0
              /\ chain[1].z2 # 0
              /\ chain[2].z1 = 0
              /\ chain[2].z2 = 0

----------------------------------------------------------------------------
(* Presets *)

\* the equalizer holds preset p, the filter list of p and processors built
\* for that list
PresetApplied(eq, p) ==
    /\ eq.preset = p
    /\ eq.filters = set_filters(p)
    /\ eq.processors = rebuild_processors(eq).processors

\* C16: applying a preset p, with update_preset(p) in an equalizer node
\* or a source and with EqSetPreset(p) in the shadow of the engine, leaves
\* the equalizer with preset p, the filter list of p in place of the
\* previous one, and processors rebuilt for that list
C16_PresetReplacesFilters ==
    \A p \in EqPresets :
        /\ PresetApplied(update_preset(dsp.instance, p), p)
        /\ \A i \in 1..Len(sink.sources) :
              PresetApplied(
                 update_preset(sink.sources[i].equalizer.instance, p), p)
        /\ pc = "recv" =>
              PresetApplied(
                 process_command(Eng, [type |-> "EqSetPreset", preset |-> p],
                                 <<>>).eq_shadow, p)

----------------------------------------------------------------------------
(* Resetting one band *)

\* the built-in default node, carrying the index of the band as its id
BuiltInDefault(k) ==
    [id |-> k, filter_type |-> "Peaking", freq |-> 1000, gain |-> 0,
     q |-> 707, order |-> 2]

\* C17: reset_filter_node_param(k) with k < len(filters) sets filters[k]
\* to the k-th filter of the current preset, or to the built-in default
\* with id k when the preset has none, and leaves the other nodes, the
\* preset, the master gain and the number of bands alone; with
\* k >= len(filters) it fails and changes nothing
C17_ResetFilterNode ==
    \A k \in 0..(MAX_EQ_FILTERS + 1) :
        LET eq == dsp.instance
            r == reset_filter_node_param(eq, k)
            preset_filters == set_filters(eq.preset)
        IN  IF k < Len(eq.filters)
            THEN /\ r.ok
                 /\ Len(r.eq.filters) = Len(eq.filters)
                 /\ r.eq.filters[k + 1] =
                        IF k < Len(preset_filters)
                        THEN preset_filters[k + 1]
                        ELSE BuiltInDefault(k)
                 /\ \A j \in 1..Len(eq.filters) :
                       j # k + 1 => r.eq.filters[j] = eq.filters[j]
                 /\ r.eq.preset = eq.preset
                 /\ r.eq.master_gain = eq.master_gain
            ELSE ~r.ok /\ r.eq = eq

\* the second band was reset under a preset of one filter: it holds the
\* built-in default with id 1, next to a band that was tuned
C17_Witness ==
    /\ dsp.instance.preset = "BassBoosted"
    /\ dsp.instance.master_gain = 2000
    /\ dsp.instance.filters = <<TunedNode, BuiltInDefault(1)>>

----------------------------------------------------------------------------
(* The buffered source *)

\* the engine stored nothing in the tracker since the source was created
\* at a position inside its track
Undisturbed ==
    /\ Len(visited) = 1
    /\ visited[1] <= SrcPayload.total_samples

\* the equalizer of the source is off, or on with no filter and a master
\* gain of 1
PassThrough(source) ==
    \/ ~source.equalizer.on
    \/ /\ source.equalizer.instance.filters = <<>>
       /\ source.equalizer.instance.master_gain = 1000

\* C18: a source driven from position p with no concurrent seek has
\* advanced the position by one per sample it yielded, has yielded
\* total - p samples and left the position at total when it reports the
\* end of the stream, and yields buffer[p + k] as its k-th sample when its
\* equalizer is off or has no filter and master gain 1
C18_SourceYieldsRest ==
    Undisturbed =>
        LET p == visited[1]
            total == SrcPayload.total_samples
        IN  /\ position = p + Len(emitted)
            /\ Len(emitted) <= total - p
            /\ in_next = EndOfStream =>
                  Len(emitted) = total - p /\ position = total
            /\ (src # None /\ emitted # <<>> /\ PassThrough(Unwrap(src))) =>
                  \A k \in 1..Len(emitted) :
                      emitted[k] = Samples(total)[p + k]

\* a source created at the second frame, its equalizer on with no filter,
\* has yielded the rest of the track unchanged and reported the end
C18_Witness ==
    /\ Undisturbed
    /\ visited[1] = 2
    /\ in_next = EndOfStream
    /\ src # None
    /\ Unwrap(src).equalizer.on
    /\ Unwrap(src).equalizer.instance.filters = <<>>
    /\ Len(emitted) = SrcPayload.total_samples - 2
    /\ position = SrcPayload.total_samples

\* C19: in every reachable state, whatever the interleaving of the audio
\* thread's next() with the engine thread's seeks and resets, the position
\* is within 0..total_samples and the remaining-sample count
\* total - position reported to the output does not underflow
C19_PositionWithinTrack ==
    /\ 0 <= position
    /\ position <= SrcPayload.total_samples
    /\ src # None =>
          current_span_len(Unwrap(src), position)
             = SrcPayload.total_samples - position

\* frames(t) * channels capped at total_samples, in unbounded arithmetic
SeekTarget(t) ==
    LET sample_pos == seek_frames(t) * SrcPayload.metadata.num_channels
    IN  IF sample_pos < SrcPayload.total_samples THEN sample_pos
        ELSE SrcPayload.total_samples

\* C20: seek_to_seconds(t) stores min(frames(t) * channels, total_samples):
\* total_samples for a time past the end, 0 for a negative or zero time,
\* and below total_samples only multiples of the channel count; reset()
\* stores 0
C20_SeekStoresTarget ==
    [][/\ \A t \in SrcSeekTimes :
             TrackerSeek(t) =>
                /\ pc' # "done"
                /\ position' = SeekTarget(t)
                /\ t <= 0 => position' = 0
                /\ t >= SrcFrames => position' = SrcPayload.total_samples
                /\ position' < SrcPayload.total_samples =>
                      position' % SrcPayload.metadata.num_channels = 0
       /\ TrackerReset => position' = 0]_vars

----------------------------------------------------------------------------
(* Stop (engine.rs 297-310) *)

\* what the engine would be after the command, were it received now
After(cmd) == process_command(Eng, cmd, <<>>)

----------------------------------------------------------------------------
(* Pause and Play (engine.rs 262-296) *)

\* the engine when its next command is received: the responses of the
\* last one are gone
Fresh(e) == [e EXCEPT !.out = <<>>]

\* Pause, the rest of the loop iteration, then Play: the paused engine
\* reports nothing, Play brings back is_playing with the sink's source as
\* it was, the position is where it was, and the responses are Paused and
\* then Playing
PausePlayKeepsSource ==
    LET e1 == After([type |-> "Pause"])
        e2 == loop_tail(Fresh(e1))
        e3 == process_command(Fresh(e2), [type |-> "Play"], <<>>)
    IN  /\ e1.out = <<Paused>>
        /\ ~e1.is_playing
        /\ e1.position = position
        /\ e2 = Fresh(e1)
        /\ e3.out = <<Playing>>
        /\ e3.is_playing
        /\ ~e3.sink.paused
        /\ Len(sink.sources) = 1
        /\ e3.sink.sources = sink.sources
        /\ e3.position = position

\* Pause while not playing changes nothing and sends nothing
PauseIdle == After([type |-> "Pause"]) = Eng

----------------------------------------------------------------------------
(* Seek (engine.rs 321-350) *)

\* the interleaved sample sought by a seek to frame t of the payload:
\* clamp(t * channels, 0, total)
SoughtPosition(t, payload) ==
    IF t <= 0 THEN 0
    ELSE IF t * payload.metadata.num_channels < payload.total_samples
    THEN t * payload.metadata.num_channels
    ELSE payload.total_samples

\* the seek times of the transport specification
TransportSeeks == SeekTimes \cup {FarSeek}

\* C23: Seek(t) with a payload loaded keeps is_playing, leaves the sink
\* playing exactly when is_playing was true, with one freshly created
\* source (of the payload, seeded from the shadow, nothing buffered) that
\* starts at the sought position, and leaves the queue and the payload
\* alone; Seek with no payload loaded changes nothing.
C23_Seek ==
    pc = "recv" =>
       \A t \in TransportSeeks :
          LET e == After([type |-> "Seek", pos |-> t])
          IN  IF IsSome(current_audio)
              THEN /\ e.is_playing = is_playing
                   /\ ~e.sink.paused <=> is_playing
                   /\ e.sink.sources =
                         <<create_source(Unwrap(current_audio), eq_shadow,
                                         eq_enabled)>>
                   /\ e.position =
                         SoughtPosition(t, Unwrap(current_audio))
                   /\ e.queue = queue
                   /\ e.current_audio = current_audio
                   /\ e.out = <<>>
              ELSE e = Eng

----------------------------------------------------------------------------
(* ClearQueue (engine.rs 400-411) *)

\* position of a response in a sequence of responses, 0 when absent
SentAt(out, r) ==
    IF \E k \in 1..Len(out) : out[k] = r
    THEN CHOOSE k \in 1..Len(out) : out[k] = r
    ELSE 0

\* C24: ClearQueue, in any engine state, ends with the queue empty,
\* current_index None, no payload loaded, is_playing false and the sink
\* holding no source, and sends both Stopped and QueueUpdated with an empty
\* item list.
C24_ClearQueue ==
    pc = "recv" =>
       LET e == After([type |-> "ClearQueue"])
       IN  /\ e.queue.items = <<>>
           /\ e.queue.current_index = None
           /\ e.current_audio = None
           /\ ~e.is_playing
           /\ sink_empty(e.sink)
           /\ SentAt(e.out, Stopped) > 0
           /\ SentAt(e.out, QueueUpdated(<<>>)) > 0

----------------------------------------------------------------------------
(* AddToQueue (engine.rs 375-393, queue.rs 45-62) *)

\* the AddToQueue commands of the playback specification
AddCmds == {c \in PlayCmds : c.type = "AddToQueue"}

\* the items of e's queue are the present items followed by one item per
\* path, in order, with the next ids
Appended(e, paths) ==
    /\ Len(e.queue.items) = Len(queue.items) + Len(paths)
    /\ \A k \in 1..Len(queue.items) :
          /\ e.queue.items[k].id = queue.items[k].id
          /\ e.queue.items[k].path = queue.items[k].path
    /\ \A k \in 1..Len(paths) :
          /\ e.queue.items[Len(queue.items) + k].id = queue.next_id + k - 1
          /\ e.queue.items[Len(queue.items) + k].path = paths[k]

\* exactly one QueueUpdated was sent, with the items of e's queue
OneQueueUpdate(e) ==
    /\ Cardinality({k \in 1..Len(e.out) :
                       e.out[k].type = "QueueUpdated"}) = 1
    /\ SentAt(e.out, QueueUpdated(e.queue.items)) > 0

\* the current track, the current index and is_playing are as before
TrackKept(e) ==
    /\ e.current_audio = current_audio
    /\ e.queue.current_index = queue.current_index
    /\ e.is_playing = is_playing

\* the index the auto-start goes to: 0 when the queue was empty, otherwise
\* next_index() of the queue with the paths added
AutoStartIndex(paths, rnd) ==
    IF queue.items = <<>> THEN Some(0)
    ELSE next_index(add(queue, paths, rnd))

\* C25 as stated: AddToQueue appends the paths in order and sends exactly
\* one QueueUpdated with the full list; while a track is playing the
\* current track, current_index and is_playing are unchanged; when nothing
\* is playing playback starts, at index 0 if the queue was empty and
\* otherwise at next_index().
C25_AddToQueue ==
    pc = "recv" =>
       \A cmd \in AddCmds : WithinBounds(cmd) =>
          \A rnd \in Draws(cmd) :
             LET e == process_command(Eng, cmd, rnd)
                 start == AutoStartIndex(cmd.paths, rnd)
             IN  /\ Appended(e, cmd.paths)
                 /\ OneQueueUpdate(e)
                 /\ is_playing => TrackKept(e)
                 /\ (~is_playing /\ IsSome(start)) =>
                       TrackChangeIn(e, Unwrap(start))

\* C25 amended: the auto-start happens when nothing is playing and the
\* sink is not paused, and playback starts when the track it goes to
\* exists and decodes; when the track fails to decode an Error is sent and
\* nothing plays; while a track is playing or the sink is paused, and when
\* there is no track to go to, the current track, current_index and
\* is_playing are unchanged.
C25_AddToQueueAutoStart ==
    pc = "recv" =>
       \A cmd \in AddCmds : WithinBounds(cmd) =>
          \A rnd \in Draws(cmd) :
             LET e == process_command(Eng, cmd, rnd)
                 start == AutoStartIndex(cmd.paths, rnd)
                 starts == /\ ~is_playing /\ ~sink.paused
                           /\ IsSome(start)
                           /\ Unwrap(start) < Len(e.queue.items)
             IN  /\ Appended(e, cmd.paths)
                 /\ OneQueueUpdate(e)
                 /\ ~starts => TrackKept(e)
                 /\ (starts /\ DecodableAt(e.queue, Unwrap(start))) =>
                       TrackChangeIn(e, Unwrap(start))
                 /\ (starts /\ ~DecodableAt(e.queue, Unwrap(start))) =>
                       /\ ~e.is_playing
                       /\ sink_empty(e.sink)
                       /\ SentAt(e.out, Error("Failed to load track")) > 0

\* a track was added to a queue whose only track had ended, and the engine
\* started it: TrackChanged{1}, Loaded, Playing and then the one
\* QueueUpdated with both items
C25_Witness ==
    /\ pc = "tick"
    /\ Len(resp) = 4
    /\ resp[1].type = "TrackChanged"
    /\ resp[1].index = 1
    /\ resp[3] = Playing
    /\ resp[4] = QueueUpdated(queue.items)
    /\ Len(queue.items) = 2
    /\ queue.current_index = Some(1)
    /\ is_playing

----------------------------------------------------------------------------
(* PlayQueueIndex past the end (engine.rs 420-430) *)

\* C26: PlayQueueIndex(i) with i >= len(queue items) sends exactly one
\* response, an Error, and changes nothing: the payload, the queue with
\* its current_index, is_playing, the position and the sink are as before.
C26_PlayQueueIndexPastEnd ==
    pc = "recv" =>
       \A i \in Len(queue.items)..MaxItems :
          After([type |-> "PlayQueueIndex", index |-> i]) =
             [Eng EXCEPT !.out = <<Error("Invalid queue index")>>]

\* PlayQueueIndex past the end was processed while a track of the queue
\* was playing: one Error, and the track plays on
C26_Witness ==
    /\ pc = "tick"
    /\ resp = <<Error("Invalid queue index")>>
    /\ is_playing
    /\ ~sink_empty(sink)
    /\ queue.current_index = Some(0)
    /\ Len(queue.items) = 1

\* ---------------------------------------------------------------------
\* The Position responses of one track
\* ---------------------------------------------------------------------

\* what ends a run of Position responses that only grow: a Seek or a Stop
\* command, and the natural end of the track that resets the tracker
Marked(rep, event) ==
    IF IsSome(rep)
    THEN Some([Unwrap(rep) EXCEPT !.since = @ \cup {event}])
    ELSE rep

\* the last Position response after the responses out: Loaded starts a
\* new track, Position is remembered with nothing since it
RECURSIVE Observe(_, _)
Observe(rep, out) ==
    IF out = <<>> THEN rep
    ELSE LET r == Head(out)
         IN  Observe(IF r.type = "Loaded" THEN None
                     ELSE IF r.type = "Position"
                     THEN Some([current |-> r.current, since |-> {}])
                     ELSE rep,
                     Tail(out))

\* the engine handles a command, and the history marks a Seek or a Stop
PosSendRecv(cmd) ==
    /\ pc = "recv"
    /\ connected
    /\ cmd_q = <<>>
    /\ WithinBounds(cmd)
    /\ \E rnd \in Draws(cmd) : Handle(cmd, rnd)
    /\ reported' = Observe(IF cmd.type \in {"Seek", "Stop"}
                           THEN Marked(reported, cmd.type)
                           ELSE reported, resp')
    /\ UNCHANGED <<cmd_q, connected, visited, dsp, src, in_next, emitted,
                   ui_is_playing>>

\* the history as the tail of the loop finds it
AtTick == IF NaturalEndPre THEN Marked(reported, "End") ELSE reported

\* the tail of the loop, and the history takes the Position it sends
PosTick ==
    /\ pc = "tick"
    /\ Commit(loop_tail(Eng))
    /\ pc' = "recv"
    /\ reported' = Observe(AtTick, resp')
    /\ UNCHANGED <<shutdowns, cmd_q, connected, visited, dsp, src, in_next,
                   emitted, ui_is_playing>>

NextPosition ==
    \/ \E cmd \in TransportCmds : PosSendRecv(cmd)
    \/ RecvTimeout
    \/ PosTick
    \/ AudioAdvance

SpecPosition == Init /\ [][NextPosition]_vars

\* every Position of out is at least the Position before it, unless one
\* of the events in breaks came in between
RECURSIVE Ordered(_, _, _)
Ordered(rep, out, breaks) ==
    \/ out = <<>>
    \/ LET r == Head(out)
       IN  /\ (r.type = "Position" /\ IsSome(rep)
               /\ Unwrap(rep).since \cap breaks = {})
              => r.current >= Unwrap(rep).current
           /\ Ordered(Observe(rep, <<r>>), Tail(out), breaks)

\* the Position responses of out that do not follow a Stopped response
RECURSIVE Progress(_, _)
Progress(out, after_stopped) ==
    IF out = <<>> THEN <<>>
    ELSE LET r == Head(out)
             rest == Progress(Tail(out), r.type = "Stopped")
         IN  IF r.type = "Position" /\ ~after_stopped
             THEN <<r>> \o rest ELSE rest

SinkSounding == ~sink_empty(sink) /\ ~sink.paused

\* C27 (as stated): within one track and with no Seek and no Stop since
\* the last one, the Position responses never decrease, and a Position
\* is sent only while the sink is non-empty and not paused
C27_Position ==
    [][(pc = "tick" /\ pc' = "recv")
       => /\ Ordered(AtTick, resp', {"Seek", "Stop"})
          /\ (\E i \in DOMAIN resp' : resp'[i].type = "Position")
             => SinkSounding']_vars

\* C27 (amended): up to the natural end of the track and with no Seek and
\* no Stop since the last one, the Position responses never decrease;
\* a Position other than the Position{0, 0} that follows Stopped at the
\* end of the queue is sent only while the sink is non-empty and not
\* paused
C27_PositionUpToEnd ==
    [][(pc = "tick" /\ pc' = "recv")
       => /\ Ordered(AtTick, resp', {"Seek", "Stop", "End"})
          /\ Progress(resp', FALSE) # <<>> => SinkSounding']_vars

\* a Position past the start of the track has been sent, the sink sounding
C27_Witness ==
    /\ pc = "recv"
    /\ resp # <<>>
    /\ resp[Len(resp)].type = "Position"
    /\ resp[Len(resp)].current > 0
    /\ SinkSounding
    /\ IsSome(reported)

\* ---------------------------------------------------------------------
\* Frames of an equalizer without channels
\* ---------------------------------------------------------------------

\* the equalizer with the parameters of eq, built for no channel at all
ZeroChannels(eq) == rebuild_processors([eq EXCEPT !.num_channels = 0])

\* C28: for every master gain and every filter list, process_frame of an
\* equalizer whose num_channels is 0 leaves the samples of the frame as
\* they were
C28_ZeroChannels ==
    \A frame \in Frames :
        process_frame(ZeroChannels(dsp.instance), frame).frame = frame

\* ---------------------------------------------------------------------
\* The shape of the processors of an equalizer
\* ---------------------------------------------------------------------

\* one chain per channel and band, of max(1, ceil(order / 2)) sections
Structured(eq) ==
    /\ Len(eq.processors) = eq.num_channels
    /\ \A c \in 1..Len(eq.processors) :
          /\ Len(eq.processors[c]) = Len(eq.filters)
          /\ \A b \in 1..Len(eq.filters) :
                LET half == (eq.filters[b].order + 1) \div 2
                IN  Len(eq.processors[c][b])
                        = IF half > 1 THEN half ELSE 1

\* the channel counts of the tracks a shadow equalizer is rebuilt for
ChannelCounts == 0..2

\* the shadow equalizer the engine builds from eq when a track with the
\* given number of channels is loaded
Reloaded(eq, num_channels) ==
    rebuild_shadow([eq_shadow |-> eq],
                   [sample_rate |-> eq.sample_rate,
                    num_channels |-> num_channels]).eq_shadow

\* C29: after any sequence of set_filter, set_all_filters, update_preset,
\* reset_parameters, reset_filter_node_param and parameters_changed, and
\* after the engine's rebuild of the shadow equalizer for a loaded track,
\* there is one processor list per channel, one chain per filter in each,
\* and max(1, ceil(order / 2)) sections in the chain of each filter
C29_Structure ==
    /\ Structured(dsp.instance)
    /\ Structured(parameters_changed(dsp.instance))
    /\ \A n \in ChannelCounts : Structured(Reloaded(dsp.instance, n))

\* a filter of order 4 was set where one of order 2 was, and a frame has
\* gone through the two sections of its chain
C29_Witness ==
    /\ emitted # <<>>
    /\ \E b \in 1..Len(dsp.instance.filters) :
          /\ dsp.instance.filters[b].order = 4
          /\ Len(dsp.instance.processors[1][b]) = 2
          /\ b <= Len(set_filters(dsp.instance.preset))
          /\ set_filters(dsp.instance.preset)[b].order # 4

\* ---------------------------------------------------------------------
\* The length of the filter lists
\* ---------------------------------------------------------------------

\* the filter lists EqSetAllFilters may carry: any Vec<FilterNode>, here
\* up to one node more than MAX_EQ_FILTERS
AnyLists ==
    {[i \in 1..n |-> TunedNode] : n \in 0..(MAX_EQ_FILTERS + 1)}

\* the shadow equalizer and the equalizer of the live source, once
\* drained, hold at most MAX_EQ_FILTERS filter nodes
FiltersBounded(e) ==
    /\ Len(e.eq_shadow.filters) <= MAX_EQ_FILTERS
    /\ ~sink_empty(e.sink)
       => Len(LiveSource(e).equalizer.instance.filters) <= MAX_EQ_FILTERS

\* C30: after any sequence of equalizer commands, and after EqSetAllFilters
\* with any list, the filter lists of the shadow equalizer and of the
\* equalizer of the live source hold at most MAX_EQ_FILTERS nodes
C30_MaxFilters ==
    /\ FiltersBounded(Eng)
    /\ pc = "recv"
       => \A l \in AnyLists :
             FiltersBounded(After([type |-> "EqSetAllFilters",
                                   filters |-> l]))

----------------------------------------------------------------------------
(* The writers of the position (engine.rs 297-350, source.rs 310-314) *)

\* next() has loaded the position and not yet stored position + 1
BetweenLoadAndStore == in_next # None /\ in_next # EndOfStream

\* C31: the engine thread stores a position (the seek of Seek, the reset of
\* Stop and of the natural end) only while the audio thread is not
\* consuming a source, so the store of position + 1 in next() follows the
\* load of the very position the tracker holds and never overwrites a
\* seek or a reset
C31_PositionWritersApart ==
    BetweenLoadAndStore => Unwrap(in_next).pos = position

----------------------------------------------------------------------------
(* The realtime channel of a source (source.rs 248-303) *)

\* the realtime commands sent to a source while it is played
RtCmds == {SetEqEnabled(TRUE), SetEqEnabled(FALSE), SetEqMasterGain(2000),
           SetAllEqFilters(<<>>), SetEqPreset("BassBoosted")}

\* the engine sends a realtime command to the source, at any time
RtSend(cmd) ==
    /\ pc # "done"
    /\ src # None
    /\ Len(Unwrap(src).cmd_rx) < MaxRt
    /\ src' = Some([Unwrap(src) EXCEPT !.cmd_rx = Append(@, cmd)])
    /\ UNCHANGED <<notSource, position, pc, in_next, emitted, visited>>

NextRealtime ==
    \/ SrcCreate
    \/ \E cmd \in RtCmds : RtSend(cmd)
    \/ SrcNextTake
    \/ SrcNextStore
    \/ SrcDrop

SpecRealtime == Init /\ [][NextRealtime]_vars

\* the parameters of the equalizer of a source
Params(source) ==
    [on |-> source.equalizer.on,
     preset |-> source.equalizer.instance.preset,
     filters |-> source.equalizer.instance.filters,
     master_gain |-> source.equalizer.instance.master_gain]

\* the node after the first n of cmds, each applied once, in the order
\* they were sent
RECURSIVE AppliedInOrder(_, _, _)
AppliedInOrder(node, cmds, n) ==
    IF n = 0 THEN node
    ELSE apply_rt_command(AppliedInOrder(node, cmds, n - 1), cmds[n])

\* next() finds its chunk used up and refills it
Refill ==
    /\ src # None
    /\ in_next = None
    /\ in_next' # None
    /\ Unwrap(src).process_buffer_idx >= Len(Unwrap(src).process_buffer)

\* C32: a refill leaves the realtime channel empty and the equalizer as
\* every pending command, applied once and in the order sent, makes it;
\* between two refills the parameters of the equalizer stay as they are
\* and the commands sent wait in the channel in their order
C32_DrainedAtRefill ==
    [][(src # None /\ src' # None) =>
          LET s == Unwrap(src)
              t == Unwrap(src')
          IN  IF Refill
              THEN /\ t.cmd_rx = <<>>
                   /\ Params(t) = Params([s EXCEPT !.equalizer =
                                     AppliedInOrder(@, s.cmd_rx,
                                                    Len(s.cmd_rx))])
              ELSE /\ Params(t) = Params(s)
                   /\ Len(t.cmd_rx) >= Len(s.cmd_rx)
                   /\ SubSeq(t.cmd_rx, 1, Len(s.cmd_rx)) = s.cmd_rx]_vars

\* a source in the middle of a chunk has applied two commands sent while
\* it played, the later one switching the equalizer off again, and holds
\* a command that waits for the next refill
C32_Witness ==
    /\ src # None
    /\ emitted # <<>>
    /\ Unwrap(src).process_buffer_idx < Len(Unwrap(src).process_buffer)
    /\ Unwrap(src).equalizer.instance.master_gain = 2000
    /\ ~Unwrap(src).equalizer.on
    /\ Unwrap(src).cmd_rx = <<SetEqEnabled(TRUE)>>

----------------------------------------------------------------------------
(* The realtime sender of the engine (engine.rs 238-247, 262-273, 333-339, *)
(* 529-536)                                                                *)

\* C33: whenever the sink holds a source the engine holds a realtime
\* sender, its channel ends in the source appended last and in no older
\* one, and an equalizer command leaves every older source as it was
C33_SenderToNewest ==
    /\ ~sink_empty(sink) =>
          /\ IsSome(rt_cmd_tx)
          /\ \A i \in DOMAIN sink.sources :
                sink.sources[i].tx_held <=> i = Len(sink.sources)
    /\ pc = "recv" =>
          \A cmd \in EqCmds :
              LET after == After(cmd).sink.sources
              IN  /\ Len(after) = Len(sink.sources)
                  /\ \A i \in 1..(Len(after) - 1) : after[i] = sink.sources[i]

\* Play has appended a source to the empty sink, and the sender the engine
\* holds leads to it
C33_Witness ==
    /\ pc = "tick"
    /\ resp = <<Playing>>
    /\ IsSome(rt_cmd_tx)
    /\ Len(sink.sources) = 1
    /\ sink.sources[1].tx_held
    /\ sink.sources[1].cmd_rx = <<>>
    /\ position = 0

----------------------------------------------------------------------------
(* One source at a time (engine.rs 205-350, 485-543) *)

\* the handlers that may append a source, applied to the engine as it is
AppendingCmds ==
    {c \in PlayCmds : c.type \in {"Load", "Play", "Seek", "Next", "Previous",
                                  "AddToQueue", "PlayQueueIndex"}}

\* C34: the sink never holds more than one source, and every handler that
\* appends a source leaves exactly the source it appended in the sink
C34_OneSource ==
    /\ Len(sink.sources) <= 1
    /\ pc = "recv" =>
          \A cmd \in AppendingCmds : \A rnd \in Draws(cmd) :
              Len(process_command(Eng, cmd, rnd).sink.sources) <= 1

\* a track change has appended the source of the second queue item, and
\* it is the only source in the sink
C34_Witness ==
    /\ pc = "tick"
    /\ Len(resp) >= 3
    /\ resp[1].type = "TrackChanged"
    /\ resp[1].index = 1
    /\ is_playing
    /\ Len(sink.sources) = 1
    /\ sink.sources[1].metadata = Unwrap(current_audio).metadata

----------------------------------------------------------------------------
(* The sink volume while playing (engine.rs 124-141, 311-317, 341-343) *)

\* the transport commands, and a volume at the threshold below which the
\* fades are skipped
VolumeCmds == TransportCmds \cup {[type |-> "SetVolume", volume |-> FadeEps]}

NextVolume ==
    \/ \E cmd \in VolumeCmds : SendRecv(cmd)
    \/ RecvTimeout
    \/ Tick
    \/ AudioAdvance

SpecVolume == Init /\ [][NextVolume]_vars

\* C35: between commands, with is_playing true, the sink volume is the
\* target volume: every fade-in ends at the target, SetVolume while
\* playing pushes the new target to the sink and Seek while playing
\* restores it
C35_VolumeAtTarget ==
    (pc # "done" /\ is_playing) => sink.volume = target_volume

----------------------------------------------------------------------------
(* The channel of a sample (source.rs 273-288, eq.rs 362-383) *)

\* channel counts of the files played: mono, stereo, and one that does not
\* divide the chunk, as 3 or 6 channels do not divide 512
PlayedChannels == {1, 2, CHUNK_SIZE + 1}

\* the payload of a decoded file of SrcFrames frames
ChannelsPayload(num_channels) ==
    [metadata |-> [path |-> "a", sample_rate |-> 44100,
                   num_channels |-> num_channels],
     total_samples |-> num_channels * SrcFrames]

\* a file is loaded: its tracker starts at 0 and its source is appended
ChannelsCreate(num_channels) ==
    /\ pc # "done"
    /\ src = None
    /\ src' = Some(create_source(ChannelsPayload(num_channels),
                                 EqualizerNew(44100, num_channels), FALSE))
    /\ position' = 0
    /\ in_next' = None
    /\ emitted' = <<>>
    /\ visited' = <<0>>
    /\ UNCHANGED <<notSource, pc>>

NextChannels ==
    \/ \E num_channels \in PlayedChannels : ChannelsCreate(num_channels)
    \/ \E cmd \in RtCmds : RtSend(cmd)
    \/ SrcNextTake
    \/ SrcNextStore
    \/ SrcDrop

SpecChannels == Init /\ [][NextChannels]_vars

\* C36: process_frame filters the sample at index i of a chunk with the
\* chain of channel i mod num_channels, and the chunk starts at the
\* position the refill loads, so the chain is that of the absolute index
\* modulo num_channels exactly when every refill starts at a multiple of
\* num_channels: for every channel count, and at every chunk boundary
C36_ChannelOfSample ==
    (/\ src # None
     /\ in_next = None
     /\ Unwrap(src).process_buffer_idx >= Len(Unwrap(src).process_buffer)
     /\ position < Unwrap(src).total_samples)
    => position % Unwrap(src).metadata.num_channels = 0

----------------------------------------------------------------------------
(* The is_playing flag of the terminal UI (audido-tui state.rs 348-364,    *)
(* main.rs 65-66, 179-185)                                                 *)

\* AppState::handle_response over the responses out, as far as is_playing
\* goes
RECURSIVE handle_responses(_, _)
handle_responses(flag, out) ==
    IF out = <<>> THEN flag
    ELSE handle_responses(
            CASE Head(out).type = "Playing" -> TRUE
              [] Head(out).type \in {"Paused", "Stopped"} -> FALSE
              [] OTHER -> flag,
            Tail(out))

\* toggle_playback: the UI sends Pause when its flag is set and Play when
\* it is not; the other commands do not look at the flag
UiMaySend(cmd) ==
    /\ cmd.type = "Play" => ~ui_is_playing
    /\ cmd.type = "Pause" => ui_is_playing

\* the UI sends a command, the engine handles it, and the UI drains the
\* responses
UiSendRecv(cmd) ==
    /\ pc = "recv"
    /\ connected
    /\ cmd_q = <<>>
    /\ WithinBounds(cmd)
    /\ UiMaySend(cmd)
    /\ \E rnd \in Draws(cmd) : Handle(cmd, rnd)
    /\ ui_is_playing' = handle_responses(ui_is_playing, resp')
    /\ UNCHANGED <<cmd_q, connected, visited, dsp, src, in_next, emitted,
                   reported>>

\* the tail of the loop, and the UI drains the responses
UiTick ==
    /\ pc = "tick"
    /\ Commit(loop_tail(Eng))
    /\ pc' = "recv"
    /\ ui_is_playing' = handle_responses(ui_is_playing, resp')
    /\ UNCHANGED <<shutdowns, cmd_q, connected, visited, dsp, src, in_next,
                   emitted, reported>>

NextUi ==
    \/ \E cmd \in TransportCmds : UiSendRecv(cmd)
    \/ RecvTimeout
    \/ UiTick
    \/ AudioAdvance

SpecUi == Init /\ [][NextUi]_vars

\* C37: with the engine idle and the responses drained, the is_playing
\* flag of the UI is the is_playing flag of the engine
C37_UiFlagFollowsEngine ==
    pc # "done" => ui_is_playing = is_playing

----------------------------------------------------------------------------
(* Playback of a queue to its end (engine.rs 164-184, 485-551) *)

\* the lists a queue is filled from, undecodable files among them
LiveLists == {<<p>> : p \in Paths} \cup {<<p1, p2>> : p1, p2 \in Paths}

\* the commands that fill the queue and set the volume before playback
LiveCmds ==
    {[type |-> "AddToQueue", paths |-> l] : l \in LiveLists}
    \cup {[type |-> "Play"]}
    \cup {[type |-> "SetVolume", volume |-> v] : v \in RawVolumes}

\* the queue is filled once and then left to play: no command arrives once
\* it holds an item
LiveSendRecv(cmd) == queue.items = <<>> /\ SendRecv(cmd)

\* one turn of the loop of run() is completed: the steps Tick of NextLive
LoopTurn == pc = "tick" /\ pc' = "recv"

NextLive ==
    \/ \E cmd \in LiveCmds : LiveSendRecv(cmd)
    \/ RecvTimeout
    \/ Tick
    \/ AudioAdvance

\* the audio thread keeps consuming and the loop of the engine keeps
\* turning
SpecLive ==
    /\ Init
    /\ [][NextLive]_vars
    /\ WF_vars(RecvTimeout)
    /\ WF_pc(LoopTurn)
    /\ WF_vars(AudioAdvance)

\* the engine has just sent Stopped and is not playing
StoppedSent ==
    /\ ~is_playing
    /\ \E i \in DOMAIN resp : resp[i].type = "Stopped"

\* C38: in loop mode Off, a queue that is being played with no further
\* command is played to its end: the engine eventually sends Stopped with
\* is_playing false, and it never stays playing on an empty sink
C38_PlaybackEnds ==
    /\ (is_playing /\ queue.loop_mode = "Off") ~> StoppedSent
    /\ (is_playing /\ sink_empty(sink)) ~> ~(is_playing /\ sink_empty(sink))

----------------------------------------------------------------------------
(* Removal of an item that is not the current one *)

\* remove(id) of q, with the outcome rnd of the reshuffle, leaves the same
\* item current
CurrentKept(q, id, rnd) == current(remove(q, id, rnd)) = current(q)

\* C39: in every queue the operations reach, with every outcome of the
\* reshuffle, remove(id) of an id other than that of the current item leaves
\* current() the same item, with the same id.
C39_RemoveKeepsCurrent ==
    \A id \in 0..MaxQId :
       \A rnd \in QDraws(queue.loop_mode = "Shuffle"
                            /\ remove_found(queue, id),
                         Len(queue.items) - 1) :
          (IsSome(current(queue)) /\ id # Unwrap(current(queue)).id)
             => CurrentKept(queue, id, rnd)

\* an item before the current one can be removed: current_index goes down
\* by one and the current item stays
C39_Witness ==
    /\ IsSome(current(queue))
    /\ \E id \in 0..MaxQId :
          /\ remove_found(queue, id)
          /\ id # Unwrap(current(queue)).id
          /\ queue.loop_mode = "Off"
          /\ remove(queue, id, <<>>).current_index # queue.current_index
          /\ CurrentKept(queue, id, <<>>)

----------------------------------------------------------------------------
(* The indices next_index() and prev_index() hand to play_queue_track *)

\* index is None or the index of an item of q
ValidIndex(q, index) == IsSome(index) => Unwrap(index) < Len(q.items)

\* C40: in every state the commands of the engine reach, in every loop
\* mode, next_index() and prev_index() return None or the index of an item
\* of the queue, so that Next, Previous and the natural end never give
\* play_queue_track an index that get() does not find.
C40_IndicesInRange ==
    /\ ValidIndex(queue, next_index(queue))
    /\ ValidIndex(queue, prev_index(queue))

\* Shuffle mode was set after an item was removed from a queue filled
\* earlier, the item at index 0 is playing, and both next_index() and
\* prev_index() return an index
C40_Witness ==
    /\ queue.loop_mode = "Shuffle"
    /\ RemoveHasActed
    /\ Len(queue.items) >= 1
    /\ queue.current_index = Some(0)
    /\ is_playing
    /\ IsSome(next_index(queue))
    /\ IsSome(prev_index(queue))

====
